---- MODULE Spec2Model ----
(***************************************************************************)
(* The draw-batching engine of otclient: DrawPool, DrawPool::DrawObject    *)
(* and DrawBuffer (the draw pool header, src/unnamed/part_000 lines 1 to   *)
(* 281).  The header holds the data layout, the inline                     *)
(* operations (flush, repaint, canRepaint(), getLastDrawObject, the        *)
(* accessors and resets, DrawObject::addMethod, DrawBuffer::validate).     *)
(* The out-of-line bodies (add, setOpacity, resetState, clear,             *)
(* canRepaint(bool), the replay loop) follow the design document,          *)
(* section 4.3.                                                            *)
(*                                                                         *)
(* Encoding.  opacity is a percentage (100 is 1.f); a Rect, a Point, a     *)
(* texture, a shader, a colour and a matrix are small integers, 0 being    *)
(* the default-constructed / null value; std::optional<vector> methods is  *)
(* <<>> when it holds nothing (a held list always has two elements or      *)
(* more); a DrawBufferPtr is 0 (nullptr) or the identity of a buffer.      *)
(***************************************************************************)
EXTENDS Integers, Sequences, FiniteSets, TLC

\* ------------------------------------------------------------- bounds
\* Otc::MAX_Z (15 in the client) shrunk: floors are 0..MAX_Z.
MAX_Z == 1
\* Methods emitted into the buckets between two clear() calls (the vectors of
\* DrawCalls and of methods are unbounded).
MaxEmits == 3
\* Length of a DrawBuffer's hash history (std::vector is unbounded).
MaxHashs == 2
\* add calls recorded per frame by the frame history.
MaxFrameAdds == 2
\* Values of the second marker of m_status are 0..MaxStatus (size_t in the code).
MaxStatus == 2
\* Methods emitted where several pools receive geometry.
MaxPoolEmits == 1
MaxDiffer == 2

\* ------------------------------------------------------------- enums
ArrMaxZTooLarge == MAX_Z + 2

\* static constexpr uint8_t ARR_MAX_Z
ARR_MAX_Z == MAX_Z + 1

DrawOrderSwapped ==
    [NONE |-> -1, FIRST |-> 1, SECOND |-> 0, THIRD |-> 2, FOURTH |-> 3, FIFTH |-> 4,
     LAST |-> 5]

DrawPoolTypeSwapped ==
    [MAP |-> 0, CREATURE_INFORMATION |-> 1, LIGHT |-> 3, TEXT |-> 2, FOREGROUND |-> 4,
     UNKNOW |-> 5]

\* enum class DrawPoolType
DrawPoolType ==
    [MAP |-> 0, CREATURE_INFORMATION |-> 1, LIGHT |-> 2, TEXT |-> 3, FOREGROUND |-> 4,
     UNKNOW |-> 5]

\* the types the manager holds a pool for
PoolTypes == DrawPoolType.MAP..DrawPoolType.FOREGROUND

\* enum class DrawOrder
DrawOrder ==
    [NONE |-> -1, FIRST |-> 0, SECOND |-> 1, THIRD |-> 2, FOURTH |-> 3, FIFTH |-> 4,
     LAST |-> 5]

FIRST == DrawOrder.FIRST
SECOND == DrawOrder.SECOND
THIRD == DrawOrder.THIRD
FOURTH == DrawOrder.FOURTH
FIFTH == DrawOrder.FIFTH
LAST == DrawOrder.LAST

Floors == 0..(ARR_MAX_Z - 1)
Orders == 0..(LAST - 1)
\* the DrawOrder values callers hand to a DrawBuffer
DrawOrders == {FIRST, SECOND, THIRD, FOURTH, FIFTH}

TRIANGLES == "TRIANGLES"
TRIANGLE_STRIP == "TRIANGLE_STRIP"
DrawModes == {TRIANGLES, TRIANGLE_STRIP}

\* ------------------------------------------------------------- inputs
Opacities == {50, 100}
ClipRects == {0, 1}
Colors == {0}
Textures == {0}
Methods == {1, 2}
Points == {0, 1}
CompositionModes == {"NORMAL", "MULTIPLY"}
BlendEquations == {"ADD", "MAX"}
Shaders == {0, 1}
NoBuffer == 0
Buffers == {1, 2}

\* ------------------------------------------------------------- PoolState
\* struct PoolState with its default member initialisers.
PoolState == [transformMatrix |-> 0, color |-> 0, opacity |-> 100,
              compositionMode |-> "NORMAL", blendEquation |-> "ADD",
              clipRect |-> 0, texture |-> 0, shaderProgram |-> 0, action |-> 0]

PoolStateEqNoTexture(s1, s2) ==
    /\ s1.transformMatrix = s2.transformMatrix
    /\ s1.color = s2.color
    /\ s1.opacity = s2.opacity
    /\ s1.compositionMode = s2.compositionMode
    /\ s1.blendEquation = s2.blendEquation
    /\ s1.clipRect = s2.clipRect
    /\ s1.shaderProgram = s2.shaderProgram

\* PoolState::operator== : every field but the action closure.
PoolStateEq(s1, s2) ==
    /\ s1.transformMatrix = s2.transformMatrix
    /\ s1.color = s2.color
    /\ s1.opacity = s2.opacity
    /\ s1.compositionMode = s2.compositionMode
    /\ s1.blendEquation = s2.blendEquation
    /\ s1.clipRect = s2.clipRect
    /\ s1.texture = s2.texture
    /\ s1.shaderProgram = s2.shaderProgram

\* the fields of PoolState
FieldNames == {"transformMatrix", "color", "opacity", "compositionMode",
               "blendEquation", "clipRect", "texture", "shaderProgram", "action"}

\* the PoolState that has its second value in the fields D and the default elsewhere
PoolStateWith(D) ==
    [transformMatrix |-> IF "transformMatrix" \in D THEN 1 ELSE 0,
     color |-> IF "color" \in D THEN 1 ELSE 0,
     opacity |-> IF "opacity" \in D THEN 50 ELSE 100,
     compositionMode |-> IF "compositionMode" \in D THEN "MULTIPLY" ELSE "NORMAL",
     blendEquation |-> IF "blendEquation" \in D THEN "MAX" ELSE "ADD",
     clipRect |-> IF "clipRect" \in D THEN 1 ELSE 0,
     texture |-> IF "texture" \in D THEN 1 ELSE 0,
     shaderProgram |-> IF "shaderProgram" \in D THEN 1 ELSE 0,
     action |-> IF "action" \in D THEN 1 ELSE 0]

\* the operands of operator==: at most MaxDiffer fields away from the default
PoolStates ==
    {PoolStateWith(D) : D \in {E \in SUBSET FieldNames : Cardinality(E) <= MaxDiffer}}

\* ------------------------------------------------------------- DrawObject
DrawObjectDefaultState(drawMode, state, method) ==
    [drawMode |-> drawMode, buffer |-> NoBuffer, state |-> PoolState,
     method |-> method, methods |-> <<>>]

\* DrawObject(drawMode, state, method)
DrawObject(drawMode, state, method) ==
    [drawMode |-> drawMode, buffer |-> NoBuffer, state |-> state,
     method |-> method, methods |-> <<>>]

addMethodNoSeed(obj, method) ==
    [obj EXCEPT !.drawMode = TRIANGLES, !.methods = Append(obj.methods, method)]

addMethodKeepsMode(obj, method) ==
    LET seeded == IF obj.methods = <<>> THEN <<obj.method>> ELSE obj.methods
    IN  [obj EXCEPT !.methods = Append(seeded, method)]

\* DrawObject::addMethod
addMethod(obj, method) ==
    LET seeded == IF obj.methods = <<>> THEN <<obj.method>> ELSE obj.methods
    IN  [obj EXCEPT !.drawMode = TRIANGLES, !.methods = Append(seeded, method)]

\* the methods a DrawObject draws: the list when it holds one, else the single method
MethodList(obj) == IF obj.methods = <<>> THEN <<obj.method>> ELSE obj.methods

\* ------------------------------------------------------------- DrawBuffer
DrawBufferStartsValid(order, agroup) ==
    [m_i |-> 0, m_agroup |-> agroup, m_order |-> order, m_ref |-> 0, m_hashs |-> <<>>]

\* DrawBuffer(order, agroup) with the default member initialisers.
DrawBuffer(order, agroup) ==
    [m_i |-> -1, m_agroup |-> agroup, m_order |-> order, m_ref |-> 0, m_hashs |-> <<>>]

\* DrawBuffer::createTemporaryBuffer
createTemporaryBuffer(order) == [DrawBuffer(order, TRUE) EXCEPT !.m_i = -2]

isValidOffByOne(b) == b.m_i > 0

isValidWhenTemporary(b) == b.m_i # -1

\* DrawBuffer::isValid
isValid(b) == b.m_i > -1

isTemporaryWhenInvalid(b) == b.m_i = -1

\* DrawBuffer::isTemporary
isTemporary(b) == b.m_i = -2

\* DrawBuffer::invalidate
invalidate(b) == [b EXCEPT !.m_i = -1]

validateKeepsValid(b, p) == IF b.m_ref # p THEN [b EXCEPT !.m_ref = p] ELSE b

validateAlwaysInvalidates(b, p) == invalidate([b EXCEPT !.m_ref = p])

\* DrawBuffer::validate, the buffer it leaves; it returns isValid() of that buffer.
validate(b, p) == IF b.m_ref # p THEN invalidate([b EXCEPT !.m_ref = p]) ELSE b

\* ------------------------------------------------------------- state
VARIABLES
    m_enabled,          \* bool m_enabled
    m_currentOrder,     \* uint8_t m_currentOrder
    m_currentFloor,     \* uint8_t m_currentFloor
    m_state,            \* PoolState m_state, the pending paint state
    m_status,           \* std::pair<size_t, size_t> m_status
    m_refreshTimer,     \* Timer m_refreshTimer: TRUE when the refresh time has elapsed
    m_objects,          \* std::vector<DrawObject> m_objects[ARR_MAX_Z][LAST]
    m_objectsByhash,    \* stdext::map<size_t, DrawObject> m_objectsByhash
    buffers,            \* the DrawBuffer objects the callers hold
    ub,                 \* an out-of-range element of a bucket was accessed
    last,               \* history: the operation executed last and what it returned
    log,                \* history: the geometry emitted since the last clear()
    frames,             \* history: the add calls of the current and the previous frame
    requested,          \* history: the repaint() calls not yet acknowledged
    m_currentPool,      \* DrawPoolManager: the type of the pool that receives the calls
    m_pools,            \* DrawPoolManager: the pools, by type, that are not selected
    drawn,              \* history: the pools composited by the last draw, in order
    lifecycle,          \* the per-frame state of the pool: Idle, Rebuilding, ...
    widgets,            \* the UIWidget objects: m_children, m_clipping, m_opacity, ...
    stack,              \* the activations of UIWidget::draw, the running one last
    uiroot,             \* history: the pending state when the root widget was drawn
    events,             \* g_dispatcher: the events added and not yet executed
    tile,               \* a Tile: m_things, m_effects, m_walkingCreatures, m_countFlag
    manager             \* g_things, the ThingTypeManager

poolVars == <<m_enabled, m_currentOrder, m_currentFloor, m_state, m_status,
              m_objects, m_objectsByhash>>
uiVars == <<widgets, stack, uiroot>>
appVars == <<events, tile, manager>>
mgrVars == <<m_currentPool, m_pools, drawn, lifecycle, uiVars, appVars>>
vars == <<m_enabled, m_currentOrder, m_currentFloor, m_state, m_status, m_refreshTimer,
          m_objects, m_objectsByhash, buffers, ub, last, log, frames, requested,
          m_currentPool, m_pools, drawn, lifecycle, widgets, stack, uiroot,
          events, tile, manager>>

\* std::map with no entry
EmptyMap == [h \in {} |-> 0]

\* every bucket empty
EmptyObjects == [f \in Floors |-> [o \in Orders |-> <<>>]]

\* what `last` holds: the operation, the buffer it was given, its boolean result,
\* whether an add took the no-op path, whether it opened a new DrawCall
Op(name, buf, ret, noop, opened) ==
    [op |-> name, buf |-> buf, ret |-> ret, noop |-> noop, opened |-> opened]

\* the frame history: the add calls (combined hash and buffer) of the previous frame
\* and of the current one, whether an add of the current frame emitted geometry
\* (missed the fast path), and whether a validate of the current frame met another
\* reference point
NoFrames == [prev |-> <<>>, cur |-> <<>>, curMiss |-> FALSE, curMoved |-> FALSE]

\* the repaint requests: pending counts the repaint() calls since the last
\* canRepaint(true), acked those the last canRepaint(true) found (2 stands for two
\* or more), by holds the types of the pools whose repaint() was called and that had
\* no canRepaint(true) since
NoRequest == [pending |-> 0, acked |-> 0, by |-> {}]

MoreRequested == [requested EXCEPT !.pending = IF @ < 2 THEN @ + 1 ELSE 2,
                                   !.by = @ \cup {m_currentPool}]

NewPoolInAgreement ==
    [m_enabled |-> TRUE, m_currentOrder |-> 0, m_currentFloor |-> 0, m_state |-> PoolState,
     m_status |-> [first |-> 0, second |-> 0], m_refreshTimer |-> FALSE,
     m_objects |-> EmptyObjects, m_objectsByhash |-> EmptyMap]

\* a DrawPool as its constructor leaves it (the default member initialisers)
NewPool ==
    [m_enabled |-> TRUE, m_currentOrder |-> 0, m_currentFloor |-> 0, m_state |-> PoolState,
     m_status |-> [first |-> 1, second |-> 0], m_refreshTimer |-> FALSE,
     m_objects |-> EmptyObjects, m_objectsByhash |-> EmptyMap]

\* the counters of Tile::m_countFlag that are followed
CountFlags == {"hasLight", "hasDisplacement", "hasCommonItem", "hasTopItem", "hasCreature",
               "hasGroundBorder", "hasBottomItem", "hasTallThings", "hasTallItems",
               "notWalkable", "fullGround", "opaque"}

\* a Tile with nothing on it
NewTile ==
    [m_things |-> <<>>, m_effects |-> <<>>, m_walkingCreatures |-> <<>>,
     m_countFlag |-> [c \in CountFlags |-> 0], m_ground |-> 0]

\* the item types known by server id
ItemIds == {1, 2, 3}

\* g_things after ThingTypeManager::init: nothing loaded, every item type the
\* null item type
NewManager ==
    [m_datLoaded |-> FALSE, m_otbLoaded |-> FALSE, m_xmlLoaded |-> FALSE,
     m_itemTypes |-> [id \in ItemIds |-> "null"],
     otbDone |-> FALSE, xmlDone |-> FALSE]

\* the default member initialisers of DrawPool; buffer 1 comes from the public
\* constructor, buffer 2 from createTemporaryBuffer; the manager holds one pool per
\* type and starts on the first; m_status {1, 0} asks for the first build of a pool
InitPool(op) ==
    /\ m_enabled = NewPool.m_enabled
    /\ m_currentOrder = NewPool.m_currentOrder
    /\ m_currentFloor = NewPool.m_currentFloor
    /\ m_state = NewPool.m_state
    /\ m_status = NewPool.m_status
    /\ m_refreshTimer = NewPool.m_refreshTimer
    /\ m_objects = NewPool.m_objects
    /\ m_objectsByhash = NewPool.m_objectsByhash
    /\ buffers = [b \in Buffers |-> IF b = 1 THEN DrawBuffer(FIRST, TRUE)
                                             ELSE createTemporaryBuffer(FIRST)]
    /\ ub = FALSE
    /\ last = op
    /\ log = <<>>
    /\ frames = NoFrames
    /\ requested = [NoRequest EXCEPT !.by = PoolTypes]
    /\ m_currentPool = DrawPoolType.MAP
    /\ m_pools = [t \in PoolTypes |-> NewPool]
    /\ drawn = <<>>
    /\ lifecycle = "Idle"
    /\ stack = <<>>
    /\ uiroot = [status |-> "before", opacity |-> 0, clipRect |-> 0, pane |-> "ForegroundPane"]
    /\ events = <<>>
    /\ tile = NewTile
    /\ manager = NewManager

\* the pool after construction and no widget
InitWith(op) == InitPool(op) /\ widgets = <<>>

\* the state after construction
Init == InitWith(Op("init", NoBuffer, FALSE, FALSE, FALSE))

\* ------------------------------------------------------------- DrawPool
getLastDrawObjectFront ==
    IF Len(m_objects[m_currentFloor][m_currentOrder]) > 0 THEN 1 ELSE 0

\* DrawPool::getLastDrawObject: the position list.size() - 1 of the bucket under the
\* cursors, counted from 1; 0 is the out-of-range position -1 of an empty bucket.
getLastDrawObject == Len(m_objects[m_currentFloor][m_currentOrder])

\* updateHash: the state hash covers every compared field of the state, the method
\* hash the geometry; equal hashes are taken to mean equal content.
StateHash(s) == <<s.transformMatrix, s.color, s.opacity, s.compositionMode,
                  s.blendEquation, s.clipRect, s.texture, s.shaderProgram>>

Hash(s, method) == <<StateHash(s), method>>

\* add, step 1: the state of the call is the pending state with the colour and the
\* texture of the call
AddState(color, texture) == [m_state EXCEPT !.color = color, !.texture = texture]

\* the bucket a call goes to: the order of its DrawBuffer, FIRST without one
AddOrder(db) == IF db # NoBuffer THEN buffers[db].m_order ELSE FIRST

\* add, step 2: the dedup fast path
AddIsNoop(h, db) ==
    /\ db # NoBuffer
    /\ buffers[db].m_agroup
    /\ isValid(buffers[db])
    /\ h \in DOMAIN m_objectsByhash

\* add, step 3: the preceding DrawCall of the bucket takes the method
AddMerges(state, drawMode, order) ==
    LET list == m_objects[m_currentFloor][order]
    IN  /\ Len(list) > 0
        /\ PoolStateEq(list[Len(list)].state, state)
        /\ list[Len(list)].drawMode = TRIANGLES
        /\ drawMode = TRIANGLES

\* add, steps 3 and 4: the bucket after the call
AddToBucket(list, state, method, drawMode, db, merges) ==
    IF merges
    THEN [list EXCEPT ![Len(list)] = addMethod(list[Len(list)], method)]
    ELSE Append(list, [DrawObject(drawMode, state, method) EXCEPT !.buffer = db])

\* add, step 5: the hash joins the history of the buffer, which is marked validated
\* (a temporary buffer is never cached)
AddToBuffer(b, h) ==
    LET hs == Append(b.m_hashs, h)
    IN  [b EXCEPT !.m_hashs = hs, !.m_i = IF isTemporary(b) THEN -2 ELSE Len(hs) - 1]

\* DrawPool::add without the frame history
AddCore(color, texture, method, drawMode, db) ==
    LET state == AddState(color, texture)
        h == Hash(state, method)
        order == AddOrder(db)
        list == m_objects[m_currentFloor][order]
        merges == AddMerges(state, drawMode, order)
    IN  /\ ~ub
        /\ IF AddIsNoop(h, db)
           THEN /\ UNCHANGED <<m_currentOrder, m_objects, m_objectsByhash, buffers, log>>
                /\ last' = Op("add", db, FALSE, TRUE, FALSE)
           ELSE /\ Len(log) < MaxEmits
                /\ db # NoBuffer => Len(buffers[db].m_hashs) < MaxHashs
                /\ m_currentOrder' = order
                /\ m_objects' = [m_objects EXCEPT ![m_currentFloor][order] =
                                     AddToBucket(list, state, method, drawMode, db, merges)]
                /\ m_objectsByhash' =
                       IF db # NoBuffer /\ buffers[db].m_agroup
                       THEN [k \in DOMAIN m_objectsByhash \cup {h} |->
                                IF k = h THEN [state |-> state, buffer |-> db]
                                         ELSE m_objectsByhash[k]]
                       ELSE m_objectsByhash
                /\ buffers' = IF db # NoBuffer
                              THEN [buffers EXCEPT ![db] = AddToBuffer(buffers[db], h)]
                              ELSE buffers
                /\ log' = Append(log, [floor |-> m_currentFloor, order |-> order,
                                        method |-> method, mode |-> drawMode,
                                        color |-> color, texture |-> texture])
                /\ last' = Op("add", db, FALSE, FALSE, ~merges)
        /\ UNCHANGED <<m_enabled, m_currentFloor, m_state, m_status, m_refreshTimer, ub>>

\* DrawPool::add, its draw mode drawn from modes and its DrawBuffer from dbs
AddWith(methods, modes, dbs) ==
    \E color \in Colors, texture \in Textures, method \in methods,
       drawMode \in modes, db \in dbs :
        /\ AddCore(color, texture, method, drawMode, db)
        /\ UNCHANGED <<frames, requested, mgrVars>>

\* DrawPool::add without a DrawBuffer
Add == AddWith(Methods, DrawModes, {NoBuffer})

\* DrawPool::add of one method without a DrawBuffer, in the default draw mode
AddTriangles == AddWith({1}, {TRIANGLES}, {NoBuffer})

\* DrawPool::add of one method without a DrawBuffer, while several pools are filled
AddFew == Len(log) < MaxPoolEmits /\ AddTriangles

\* DrawPool::add with the DrawBuffer built by the constructor
AddBuffered == AddWith(Methods, {TRIANGLES}, {1})

\* DrawPool::add with the DrawBuffer built by the constructor, recorded in the
\* frame history
AddFrame ==
    \E color \in Colors, texture \in Textures, method \in Methods, db \in {1} :
        /\ Len(frames.cur) < MaxFrameAdds
        /\ AddCore(color, texture, method, TRIANGLES, db)
        /\ frames' = [frames EXCEPT
               !.cur = Append(@, [h |-> Hash(AddState(color, texture), method), db |-> db]),
               !.curMiss = @ \/ ~last'.noop]
        /\ UNCHANGED <<requested, mgrVars>>

\* DrawPool::setOpacity, its onLastDrawing flag drawn from flags
SetOpacityWith(flags) ==
    \E opacity \in Opacities, onLastDrawing \in flags :
        /\ ~ub
        /\ IF onLastDrawing
           THEN IF getLastDrawObject = 0
                THEN ub' = TRUE /\ UNCHANGED <<m_objects, m_state>>
                ELSE /\ m_objects' = [m_objects EXCEPT
                          ![m_currentFloor][m_currentOrder][getLastDrawObject].state.opacity
                              = opacity]
                     /\ UNCHANGED <<m_state, ub>>
           ELSE m_state' = [m_state EXCEPT !.opacity = opacity]
                /\ UNCHANGED <<m_objects, ub>>
        /\ last' = Op(IF onLastDrawing THEN "setOpacityLast" ELSE "setOpacity",
                      NoBuffer, FALSE, FALSE, FALSE)
        /\ UNCHANGED <<m_enabled, m_currentOrder, m_currentFloor, m_status,
                       m_refreshTimer, m_objectsByhash, buffers, log, frames, requested, mgrVars>>

\* DrawPool::setOpacity
SetOpacity == SetOpacityWith(BOOLEAN)

\* DrawPool::setOpacity on the pending state
SetOpacityPending == SetOpacityWith({FALSE})

\* DrawPool::setClipRect on the pending state
SetClipRect ==
    \E clipRect \in ClipRects :
        /\ ~ub
        /\ m_state' = [m_state EXCEPT !.clipRect = clipRect]
        /\ last' = Op("setClipRect", NoBuffer, FALSE, FALSE, FALSE)
        /\ UNCHANGED <<m_enabled, m_currentOrder, m_currentFloor, m_status, m_refreshTimer,
                       m_objects, m_objectsByhash, buffers, ub, log, frames, requested, mgrVars>>

\* DrawPool::getOpacity where the element it reads exists
getOpacity(lastDrawing) ==
    IF ~lastDrawing THEN m_state.opacity
    ELSE m_objects[m_currentFloor][m_currentOrder][getLastDrawObject].state.opacity

\* DrawPool::getClipRect where the element it reads exists
getClipRect(lastDrawing) ==
    IF ~lastDrawing THEN m_state.clipRect
    ELSE m_objects[m_currentFloor][m_currentOrder][getLastDrawObject].state.clipRect

\* a call of an accessor: with lastDrawing on an empty bucket it reads list[-1], and
\* any value may come back
Accessor(name, values, lastDrawing, value) ==
    /\ ~ub
    /\ IF lastDrawing /\ getLastDrawObject = 0
       THEN /\ ub' = TRUE
            /\ \E v \in values : last' = Op(name, NoBuffer, v, FALSE, FALSE)
       ELSE /\ ub' = ub
            /\ last' = Op(name, NoBuffer, value, FALSE, FALSE)
    /\ UNCHANGED <<m_enabled, m_currentOrder, m_currentFloor, m_state, m_status,
                   m_refreshTimer, m_objects, m_objectsByhash, buffers, log, frames,
                   requested, mgrVars>>

\* DrawPool::getOpacity
GetOpacity ==
    \/ Accessor("getOpacity", Opacities, FALSE, getOpacity(FALSE))
    \/ Accessor("getOpacityLast", Opacities, TRUE, getOpacity(TRUE))

\* DrawPool::getClipRect
GetClipRect ==
    \/ Accessor("getClipRect", ClipRects, FALSE, getClipRect(FALSE))
    \/ Accessor("getClipRectLast", ClipRects, TRUE, getClipRect(TRUE))

\* a setter of one field of the pending state (onLastDrawing = false)
SetPending(name, state) ==
    /\ ~ub
    /\ m_state' = state
    /\ last' = Op(name, NoBuffer, FALSE, FALSE, FALSE)
    /\ UNCHANGED <<m_enabled, m_currentOrder, m_currentFloor, m_status, m_refreshTimer,
                   m_objects, m_objectsByhash, buffers, ub, log, frames, requested, mgrVars>>

\* DrawPool::setCompositionMode on the pending state
SetCompositionMode ==
    \E mode \in CompositionModes :
        SetPending("setCompositionMode", [m_state EXCEPT !.compositionMode = mode])

\* DrawPool::setBlendEquation on the pending state
SetBlendEquation ==
    \E equation \in BlendEquations :
        SetPending("setBlendEquation", [m_state EXCEPT !.blendEquation = equation])

\* DrawPool::setShaderProgram on the pending state, action left at its default
SetShaderProgram ==
    \E shaderProgram \in Shaders :
        SetPending("setShaderProgram",
                   [m_state EXCEPT !.shaderProgram = shaderProgram, !.action = 0])

\* DrawPool::resetOpacity
ResetOpacity == SetPending("resetOpacity", [m_state EXCEPT !.opacity = 100])

ResetClipRectAndOpacity ==
    SetPending("resetClipRect", [m_state EXCEPT !.clipRect = 0, !.opacity = 100])

\* DrawPool::resetClipRect
ResetClipRect == SetPending("resetClipRect", [m_state EXCEPT !.clipRect = 0])

\* DrawPool::resetShaderProgram
ResetShaderProgram ==
    SetPending("resetShaderProgram", [m_state EXCEPT !.shaderProgram = 0])

\* DrawPool::resetCompositionMode
ResetCompositionMode ==
    SetPending("resetCompositionMode", [m_state EXCEPT !.compositionMode = "NORMAL"])

\* DrawPool::resetBlendEquation
ResetBlendEquation ==
    SetPending("resetBlendEquation", [m_state EXCEPT !.blendEquation = "ADD"])

\* PoolState::operator== applied to the right operand of the last comparison and
\* another PoolState
Equals ==
    \E s2 \in PoolStates :
        /\ ~ub
        /\ last.op \in {"operands", "equals"}
        /\ last' = Op("equals", <<last.buf[2], s2>>, PoolStateEq(last.buf[2], s2),
                      FALSE, FALSE)
        /\ UNCHANGED <<poolVars, m_refreshTimer, buffers, ub, log, frames, requested,
                       mgrVars>>

\* DrawObject::addMethod applied to the DrawObject built or extended last
AddMethod ==
    \E method \in Methods :
        /\ ~ub
        /\ last.op \in {"DrawObject", "addMethod"}
        /\ Len(MethodList(last.ret)) < MaxEmits
        /\ last' = Op("addMethod", last.buf, addMethod(last.ret, method), FALSE, FALSE)
        /\ UNCHANGED <<poolVars, m_refreshTimer, buffers, ub, log, frames, requested,
                       mgrVars>>

\* DrawPool::resetState
ResetState ==
    /\ ~ub
    /\ m_state' = [m_state EXCEPT !.color = 0, !.opacity = 100, !.clipRect = 0,
                                  !.shaderProgram = 0, !.compositionMode = "NORMAL",
                                  !.blendEquation = "ADD"]
    /\ last' = Op("resetState", NoBuffer, FALSE, FALSE, FALSE)
    /\ UNCHANGED <<m_enabled, m_currentOrder, m_currentFloor, m_status, m_refreshTimer,
                   m_objects, m_objectsByhash, buffers, ub, log, frames, requested, mgrVars>>

FlushDropsBucket ==
    /\ ~ub
    /\ m_objectsByhash' = EmptyMap
    /\ m_objects' = [m_objects EXCEPT ![m_currentFloor][m_currentOrder] = <<>>]
    /\ m_currentFloor' = IF m_currentFloor < ARR_MAX_Z - 1 THEN m_currentFloor + 1
                                                           ELSE m_currentFloor
    /\ last' = Op("flush", NoBuffer, FALSE, FALSE, FALSE)
    /\ UNCHANGED <<m_enabled, m_currentOrder, m_state, m_status, m_refreshTimer,
                   buffers, ub, log, frames, requested, mgrVars>>

FlushCoreRecycles ==
    /\ ~ub
    /\ m_objectsByhash' = EmptyMap
    /\ m_objects' = IF m_currentFloor < ARR_MAX_Z - 1 THEN m_objects ELSE EmptyObjects
    /\ m_currentFloor' = IF m_currentFloor < ARR_MAX_Z - 1 THEN m_currentFloor + 1
                                                           ELSE m_currentFloor
    /\ last' = Op("flush", NoBuffer, FALSE, FALSE, FALSE)
    /\ UNCHANGED <<m_enabled, m_currentOrder, m_state, m_status, m_refreshTimer,
                   buffers, ub, log>>

\* DrawPool::flush without the frame history
FlushCore ==
    /\ ~ub
    /\ m_objectsByhash' = EmptyMap
    /\ m_currentFloor' = IF m_currentFloor < ARR_MAX_Z - 1 THEN m_currentFloor + 1
                                                           ELSE m_currentFloor
    /\ last' = Op("flush", NoBuffer, FALSE, FALSE, FALSE)
    /\ UNCHANGED <<m_enabled, m_currentOrder, m_state, m_status, m_refreshTimer,
                   m_objects, buffers, ub, log>>

FlushResetsState ==
    /\ ~ub
    /\ m_objectsByhash' = EmptyMap
    /\ m_state' = PoolState
    /\ m_currentFloor' = IF m_currentFloor < ARR_MAX_Z - 1 THEN m_currentFloor + 1
                                                           ELSE m_currentFloor
    /\ last' = Op("flush", NoBuffer, FALSE, FALSE, FALSE)
    /\ UNCHANGED <<m_enabled, m_currentOrder, m_status, m_refreshTimer, m_objects,
                   buffers, ub, log, frames, requested, mgrVars>>

\* DrawPool::flush
Flush == FlushCore /\ UNCHANGED <<frames, requested, mgrVars>>

\* DrawPool::flush closing a frame of the frame history
FlushFrame ==
    /\ FlushCore
    /\ frames' = [prev |-> frames.cur, cur |-> <<>>, curMiss |-> FALSE, curMoved |-> FALSE]
    /\ UNCHANGED <<requested, mgrVars>>

ClearCurrentFloor ==
    /\ ~ub
    /\ m_objects' = [m_objects EXCEPT ![m_currentFloor] = [o \in Orders |-> <<>>]]
    /\ m_objectsByhash' = EmptyMap
    /\ log' = <<>>
    /\ last' = Op("clear", NoBuffer, FALSE, FALSE, FALSE)
    /\ UNCHANGED <<m_enabled, m_currentOrder, m_currentFloor, m_state, m_status,
                   m_refreshTimer, buffers, ub, frames, requested, mgrVars>>

\* DrawPool::clear
Clear ==
    /\ ~ub
    /\ m_objects' = EmptyObjects
    /\ m_objectsByhash' = EmptyMap
    /\ log' = <<>>
    /\ last' = Op("clear", NoBuffer, FALSE, FALSE, FALSE)
    /\ UNCHANGED <<m_enabled, m_currentOrder, m_currentFloor, m_state, m_status,
                   m_refreshTimer, buffers, ub, frames, requested, mgrVars>>

RepaintEveryPool ==
    /\ ~ub
    /\ m_status' = [m_status EXCEPT !.first = 1]
    /\ m_pools' = [t \in PoolTypes |-> [m_pools[t] EXCEPT !.m_status.first = 1]]
    /\ last' = Op("repaint", NoBuffer, FALSE, FALSE, FALSE)
    /\ UNCHANGED <<m_enabled, m_currentOrder, m_currentFloor, m_state, m_refreshTimer,
                   m_objects, m_objectsByhash, buffers, ub, log, frames, m_currentPool,
                   drawn, lifecycle, uiVars, appVars>>
    /\ requested' = MoreRequested

\* DrawPool::repaint
Repaint ==
    /\ ~ub
    /\ m_status' = [m_status EXCEPT !.first = 1]
    /\ last' = Op("repaint", NoBuffer, FALSE, FALSE, FALSE)
    /\ UNCHANGED <<m_enabled, m_currentOrder, m_currentFloor, m_state, m_refreshTimer,
                   m_objects, m_objectsByhash, buffers, ub, log, frames, mgrVars>>
    /\ requested' = MoreRequested

\* DrawPool::canRepaint(bool autoUpdateStatus): what it returns
CanRepaintResult == m_status.first # m_status.second \/ m_refreshTimer

\* DrawPool::canRepaint(bool autoUpdateStatus) on the pool alone; name tells the
\* entry point apart
canRepaintCore(name, autoUpdateStatus) ==
    /\ ~ub
    /\ m_status' = IF autoUpdateStatus /\ CanRepaintResult
                   THEN [m_status EXCEPT !.first = m_status.second]
                   ELSE m_status
    /\ last' = Op(name, NoBuffer, CanRepaintResult, FALSE, FALSE)
    /\ UNCHANGED <<m_enabled, m_currentOrder, m_currentFloor, m_state, m_refreshTimer,
                   m_objects, m_objectsByhash, buffers, ub, log, frames>>
    /\ requested' = IF autoUpdateStatus
                    THEN [pending |-> 0, acked |-> requested.pending,
                          by |-> requested.by \ {m_currentPool}]
                    ELSE requested

\* DrawPool::canRepaint(bool autoUpdateStatus)
canRepaintBool(name, autoUpdateStatus) ==
    canRepaintCore(name, autoUpdateStatus) /\ UNCHANGED mgrVars

CanRepaintAcknowledges == canRepaintBool("canRepaint", TRUE)

\* DrawPool::canRepaint(), the public entry point
CanRepaint == canRepaintBool("canRepaint", FALSE)

\* DrawPool::canRepaint(true), the call of the pool manager
CanRepaintAuto == canRepaintBool("canRepaintAuto", TRUE)

\* the second marker of m_status advances: the design document names the pair
\* monotonically advancing markers; no inline code of the header writes the second
AdvanceStatus ==
    /\ ~ub
    /\ m_status.second < MaxStatus
    /\ m_status' = [m_status EXCEPT !.second = @ + 1]
    /\ last' = Op("advance", NoBuffer, FALSE, FALSE, FALSE)
    /\ UNCHANGED <<m_enabled, m_currentOrder, m_currentFloor, m_state, m_refreshTimer,
                   m_objects, m_objectsByhash, buffers, ub, log, frames, requested, mgrVars>>

\* the timer service: the refresh time elapses, or the timer is restarted
Tick ==
    /\ ~ub
    /\ m_refreshTimer' = ~m_refreshTimer
    /\ last' = Op("tick", NoBuffer, FALSE, FALSE, FALSE)
    /\ UNCHANGED <<m_enabled, m_currentOrder, m_currentFloor, m_state, m_status,
                   m_objects, m_objectsByhash, buffers, ub, log, frames, requested, mgrVars>>

\* the timer service, for the pool of type MAP
TickMap == m_currentPool = DrawPoolType.MAP /\ Tick

\* DrawBuffer::validate, called by the producer that owns the buffer,
\* without the frame history
ValidateCore(b, p) ==
    /\ ~ub
    /\ buffers' = [buffers EXCEPT ![b] = validate(buffers[b], p)]
    /\ last' = Op("validate", b, isValid(buffers'[b]), FALSE, FALSE)
    /\ UNCHANGED <<m_enabled, m_currentOrder, m_currentFloor, m_state, m_status,
                   m_refreshTimer, m_objects, m_objectsByhash, ub, log>>

\* DrawBuffer::validate
Validate ==
    \E b \in Buffers, p \in Points :
        /\ ValidateCore(b, p)
        /\ frames' = [frames EXCEPT !.curMoved = @ \/ buffers[b].m_ref # p]
        /\ UNCHANGED <<requested, mgrVars>>

\* DrawPool::add with any DrawBuffer or none, a few emissions long
AddAny == Len(log) < MaxHashs /\ AddWith(Methods, {TRIANGLES}, {NoBuffer} \cup Buffers)

\* DrawBuffer::agroup
Agroup ==
    \E b \in {1}, v \in BOOLEAN :
        /\ ~ub
        /\ buffers' = [buffers EXCEPT ![b].m_agroup = v]
        /\ last' = Op("agroup", b, FALSE, FALSE, FALSE)
        /\ UNCHANGED <<m_enabled, m_currentOrder, m_currentFloor, m_state, m_status,
                       m_refreshTimer, m_objects, m_objectsByhash, ub, log, frames,
                       requested, mgrVars>>

\* an identity query of a DrawBuffer: it returns value and changes nothing
Query(name, b, value) ==
    /\ ~ub
    /\ last' = Op(name, b, value, FALSE, FALSE)
    /\ UNCHANGED <<poolVars, m_refreshTimer, buffers, ub, log, frames, requested, mgrVars>>

\* DrawBuffer::isValid as a call
IsValid == \E b \in Buffers : Query("isValid", b, isValid(buffers[b]))

\* DrawBuffer::isTemporary as a call
IsTemporary == \E b \in Buffers : Query("isTemporary", b, isTemporary(buffers[b]))

\* DrawBuffer::setOrder
SetOrder ==
    \E b \in {1}, order \in DrawOrders :
        /\ ~ub
        /\ buffers' = [buffers EXCEPT ![b].m_order = order]
        /\ last' = Op("setOrder", b, FALSE, FALSE, FALSE)
        /\ UNCHANGED <<m_enabled, m_currentOrder, m_currentFloor, m_state, m_status,
                       m_refreshTimer, m_objects, m_objectsByhash, ub, log, frames, requested, mgrVars>>

\* ------------------------------------------------------------- DrawPoolManager
\* the selected pool, as a value
ThisPool ==
    [m_enabled |-> m_enabled, m_currentOrder |-> m_currentOrder,
     m_currentFloor |-> m_currentFloor, m_state |-> m_state, m_status |-> m_status,
     m_refreshTimer |-> m_refreshTimer, m_objects |-> m_objects,
     m_objectsByhash |-> m_objectsByhash]

\* the pool of type t
PoolOf(t) == IF t = m_currentPool THEN ThisPool ELSE m_pools[t]

\* DrawPoolManager: the pool of type t becomes the pool that receives the calls; the
\* pool left behind keeps what it holds
SelectWith(types) ==
    \E t \in types :
        /\ ~ub
        /\ m_pools' = IF t = m_currentPool THEN m_pools
                      ELSE [m_pools EXCEPT ![m_currentPool] = ThisPool, ![t] = NewPool]
        /\ m_currentPool' = t
        /\ m_enabled' = PoolOf(t).m_enabled
        /\ m_currentOrder' = PoolOf(t).m_currentOrder
        /\ m_currentFloor' = PoolOf(t).m_currentFloor
        /\ m_state' = PoolOf(t).m_state
        /\ m_status' = PoolOf(t).m_status
        /\ m_refreshTimer' = PoolOf(t).m_refreshTimer
        /\ m_objects' = PoolOf(t).m_objects
        /\ m_objectsByhash' = PoolOf(t).m_objectsByhash
        /\ last' = Op("select", NoBuffer, FALSE, FALSE, FALSE)
        /\ UNCHANGED <<buffers, ub, log, frames, requested, drawn, lifecycle, uiVars, appVars>>

\* selection of any pool
Select == SelectWith(PoolTypes)

\* selection among the first two pools
SelectSome == SelectWith({DrawPoolType.MAP, DrawPoolType.CREATURE_INFORMATION})

\* DrawPool::setEnable on the selected pool
SetEnable ==
    \E v \in BOOLEAN :
        /\ ~ub
        /\ m_enabled' = v
        /\ last' = Op("setEnable", NoBuffer, FALSE, FALSE, FALSE)
        /\ UNCHANGED <<m_currentOrder, m_currentFloor, m_state, m_status, m_refreshTimer,
                       m_objects, m_objectsByhash, buffers, ub, log, frames, requested,
                       mgrVars>>

\* the composition loop from the pool of type k on: the enabled pools it composites
RECURSIVE DrawFrom(_)
DrawFrom(k) ==
    IF k > DrawPoolType.FOREGROUND THEN <<>>
    ELSE (IF PoolOf(k).m_enabled THEN <<k>> ELSE <<>>) \o DrawFrom(k + 1)

\* DrawPoolManager: the end-of-frame composition
Draw ==
    /\ ~ub
    /\ drawn' = DrawFrom(DrawPoolType.MAP)
    /\ last' = Op("draw", NoBuffer, FALSE, FALSE, FALSE)
    /\ UNCHANGED <<m_enabled, m_currentOrder, m_currentFloor, m_state, m_status,
                   m_refreshTimer, m_objects, m_objectsByhash, buffers, ub, log, frames,
                   requested, m_currentPool, m_pools, lifecycle, uiVars, appVars>>

\* the frame of a pool begins: the manager asks canRepaint(true) and either has the
\* producers rebuild the pool or replays what it holds
FrameBegin ==
    /\ lifecycle = "Idle"
    /\ canRepaintCore("canRepaintAuto", TRUE)
    /\ lifecycle' = IF CanRepaintResult THEN "Rebuilding" ELSE "ReplayCached"
    /\ UNCHANGED <<m_currentPool, m_pools, drawn, uiVars, appVars>>

\* a producer emits while the pool is rebuilt
FrameAdd == lifecycle = "Rebuilding" /\ AddFew

\* the frame of the pool is flushed
FrameFlush ==
    /\ lifecycle \in {"Rebuilding", "ReplayCached"}
    /\ FlushCore
    /\ lifecycle' = "Flushed"
    /\ UNCHANGED <<frames, requested, m_currentPool, m_pools, drawn, uiVars, appVars>>

\* the frame ends
FrameEnd ==
    /\ ~ub
    /\ lifecycle = "Flushed"
    /\ lifecycle' = "Idle"
    /\ last' = Op("frameEnd", NoBuffer, FALSE, FALSE, FALSE)
    /\ UNCHANGED <<poolVars, m_refreshTimer, buffers, ub, log, frames, requested,
                   m_currentPool, m_pools, drawn, uiVars, appVars>>

\* ------------------------------------------------------------- replay
\* the geometry of the DrawCalls list[i..], in the order of the list and, within a
\* DrawCall, of its methods
RECURSIVE BucketSeq(_, _, _, _)
BucketSeq(list, i, f, o) ==
    IF i > Len(list) THEN <<>>
    ELSE [k \in 1..Len(MethodList(list[i])) |->
             [floor |-> f, order |-> o, method |-> MethodList(list[i])[k]]]
         \o BucketSeq(list, i + 1, f, o)

\* the replay of the pool from bucket number k on: floor by floor and, within a
\* floor, bucket by bucket from 0 to LAST - 1
RECURSIVE ReplayFrom(_, _)
ReplayFrom(objs, k) ==
    IF k >= ARR_MAX_Z * LAST THEN <<>>
    ELSE BucketSeq(objs[k \div LAST][k % LAST], 1, k \div LAST, k % LAST)
         \o ReplayFrom(objs, k + 1)

\* what the pool hands to the rasterizer when it is drawn
ReplaySeq == ReplayFrom(m_objects, 0)

\* ------------------------------------------------------------- specifications
\* batching into one bucket: emission without DrawBuffer, the opacity setter, reset,
\* flush and clear
Next ==
    \/ Add
    \/ SetOpacity
    \/ ResetState
    \/ Flush
    \/ Clear

Spec == Init /\ [][Next]_vars

\* partition into order buckets: emission through a DrawBuffer whose order changes
NextOrder ==
    \/ AddBuffered
    \/ SetOrder
    \/ Flush
    \/ Clear

SpecOrder == Init /\ [][NextOrder]_vars

\* the DrawBuffer cache across frames
NextBuffer ==
    \/ AddFrame
    \/ Validate
    \/ FlushFrame

SpecBuffer == Init /\ [][NextBuffer]_vars

\* the repaint status
NextStatus ==
    \/ Repaint
    \/ CanRepaint
    \/ CanRepaintAuto
    \/ AdvanceStatus
    \/ Tick
    \/ AddTriangles
    \/ SetOpacityPending
    \/ ResetState
    \/ Flush

SpecStatus == Init /\ [][NextStatus]_vars

\* the accessors among the calls of one producer
NextAccess ==
    \/ AddTriangles
    \/ SetOpacityPending
    \/ SetClipRect
    \/ GetOpacity
    \/ GetClipRect
    \/ Flush
    \/ Clear

SpecAccess == Init /\ [][NextAccess]_vars

\* the setters and resets of the pending state among emissions
NextReset ==
    \/ AddFew
    \/ SetOpacityPending
    \/ SetClipRect
    \/ SetShaderProgram
    \/ SetCompositionMode
    \/ SetBlendEquation
    \/ ResetOpacity
    \/ ResetClipRect
    \/ ResetShaderProgram
    \/ ResetCompositionMode
    \/ ResetBlendEquation
    \/ ResetState

SpecReset == Init /\ [][NextReset]_vars

\* adds with and without DrawBuffers whose grouping and validity change
NextDedup ==
    \/ AddAny
    \/ Agroup
    \/ Validate

SpecDedup == Init /\ [][NextDedup]_vars

\* the identity of the DrawBuffers under adds, validations and queries
NextIdentity ==
    \/ AddAny
    \/ Validate
    \/ IsValid
    \/ IsTemporary

SpecIdentity == Init /\ [][NextIdentity]_vars

\* the frames of one pool, with repaint requests and the refresh timer in between
NextFrame ==
    \/ FrameBegin
    \/ FrameAdd
    \/ FrameFlush
    \/ FrameEnd
    \/ Repaint
    \/ Tick

\* the manager keeps drawing frames
SpecFrame ==
    /\ Init
    /\ [][NextFrame]_vars
    /\ WF_vars(FrameBegin)
    /\ WF_vars(FrameFlush)
    /\ WF_vars(FrameEnd)

\* a DrawObject built by DrawObject(drawMode, state, method)
InitObject ==
    \E drawMode \in DrawModes, state \in PoolStates, method \in Methods :
        InitWith(Op("DrawObject", <<drawMode, method>>,
                    DrawObject(drawMode, state, method), FALSE, FALSE))

NextObject ==
    \/ AddMethod

SpecObject == InitObject /\ [][NextObject]_vars

\* two PoolStates to compare
InitEquals ==
    \E s1, s2 \in PoolStates : InitWith(Op("operands", <<s1, s2>>, FALSE, FALSE, FALSE))

NextEquals ==
    \/ Equals

SpecEquals == InitEquals /\ [][NextEquals]_vars

\* several pools behind the manager, each receiving calls while it is selected
NextPools ==
    \/ SelectSome
    \/ AddFew
    \/ SetOpacityPending
    \/ ResetState
    \/ Flush
    \/ Repaint
    \/ CanRepaintAuto
    \/ TickMap

SpecPools == Init /\ [][NextPools]_vars

\* the composition of the frame by the manager
NextCompose ==
    \/ Select
    \/ SetEnable
    \/ Repaint
    \/ Draw

SpecCompose == Init /\ [][NextCompose]_vars

\* ------------------------------------------------------------- properties
\* the last emission of the log
LastEmit(l) == l[Len(l)]

\* the methods of the log entries of floor f that asked for order o
RECURSIVE LogMethods(_, _, _)
LogMethods(l, f, o) ==
    IF l = <<>> THEN <<>>
    ELSE (IF l[1].floor = f /\ l[1].order = o THEN <<l[1].method>> ELSE <<>>)
         \o LogMethods(Tail(l), f, o)

\* the methods bucket [f][o] draws, in replay order
BucketMethods(objs, f, o) ==
    LET r == BucketSeq(objs[f][o], 1, f, o) IN [k \in 1..Len(r) |-> r[k].method]

\* a call of the current frame repeats an earlier call of the same frame
RepeatsInFrame ==
    \E i \in 1..(Len(frames.cur) - 1) : frames.cur[i] = frames.cur[Len(frames.cur)]

C2_Lists ==
    \A f \in Floors, o \in Orders :
        /\ BucketMethods(m_objects, f, o) = LogMethods(log, f, o)
        /\ \A i \in 1..Len(m_objects[f][o]) :
               LET obj == m_objects[f][o][i]
               IN  obj.methods # <<>> => Len(obj.methods) >= 2 /\ obj.methods[1] = obj.method

C2_Step ==
    (last'.op = "add" /\ ~last'.noop) =>
        LET e == LastEmit(log')
            list == m_objects[e.floor][e.order]
            list2 == m_objects'[e.floor][e.order]
            state == [m_state EXCEPT !.color = e.color, !.texture = e.texture]
        IN  (/\ Len(list) > 0
             /\ PoolStateEq(list[Len(list)].state, state)
             /\ list[Len(list)].drawMode = TRIANGLES
             /\ e.mode = TRIANGLES)
            => /\ Len(list2) = Len(list)
               /\ MethodList(list2[Len(list2)])
                      = Append(MethodList(list[Len(list)]), e.method)

C2_BatchingOrder == []C2_Lists /\ [][C2_Step]_vars

C2_Witness ==
    /\ Len(m_objects[0][FIRST]) = 1
    /\ m_objects[0][FIRST][1].methods = <<1, 2>>
    /\ log = <<[floor |-> 0, order |-> FIRST, method |-> 1, mode |-> TRIANGLES,
                color |-> 0, texture |-> 0],
               [floor |-> 0, order |-> FIRST, method |-> 2, mode |-> TRIANGLES,
                color |-> 0, texture |-> 0]>>

\* the pairs of orders (a, b) with a drawn before b
DrawnBefore ==
    {<<FIRST, SECOND>>, <<FIRST, THIRD>>, <<FIRST, FOURTH>>, <<FIRST, FIFTH>>,
     <<SECOND, THIRD>>, <<SECOND, FOURTH>>, <<SECOND, FIFTH>>,
     <<THIRD, FOURTH>>, <<THIRD, FIFTH>>, <<FOURTH, FIFTH>>}

\* C3: in the replay of the pool, on every floor, all geometry of an earlier order
\* bucket comes before all geometry of a later one, and each order bucket holds the
\* geometry that was submitted for that order, whatever the interleaving.
C3_BucketOrdering ==
    LET r == ReplaySeq
    IN  /\ \A i, j \in 1..Len(r) :
               (r[i].floor = r[j].floor /\ <<r[i].order, r[j].order>> \in DrawnBefore)
                   => i < j
        /\ \A f \in Floors, o \in DrawOrders :
               BucketMethods(m_objects, f, o) = LogMethods(log, f, o)

C3_Witness ==
    /\ Len(log) >= 2
    /\ log[1].floor = log[2].floor
    /\ log[1].order = SECOND
    /\ log[2].order = FIRST
    /\ Len(ReplaySeq) >= 2

\* y is DrawCall x, possibly with methods appended
ExtendsObject(x, y) ==
    /\ y.method = x.method
    /\ Len(MethodList(y)) >= Len(MethodList(x))
    /\ \A k \in 1..Len(MethodList(x)) : MethodList(y)[k] = MethodList(x)[k]

\* C4: a step other than clear() keeps every DrawCall of every bucket at its
\* position: none is removed, none but the last of a bucket changes, and the last
\* only gains methods or a patched state.
C4_Step ==
    last'.op # "clear" =>
        \A f \in Floors, o \in Orders :
            LET a == m_objects[f][o]
                b == m_objects'[f][o]
            IN  /\ Len(b) >= Len(a)
                /\ \A i \in 1..Len(a) :
                       /\ ExtendsObject(a[i], b[i])
                       /\ i < Len(a) => b[i] = a[i]

C5_Step ==
    \A b \in Buffers :
        /\ \A p \in Points :
               (isValid(buffers[b]) /\ buffers[b].m_ref # p /\ ValidateCore(b, p))
                   => /\ last'.ret = FALSE
                      /\ ~isValid(buffers'[b])
                      /\ buffers'[b].m_ref = p
        /\ (last'.op = "add" /\ last'.buf = b /\ ~isValid(buffers[b])) => ~last'.noop

C5_Invalidation == [][C5_Step]_vars

C5_Witness ==
    /\ last.op = "add"
    /\ ~last.noop
    /\ RepeatsInFrame
    /\ frames.curMoved
    /\ buffers[1].m_ref = 1

\* C6: validate(p) with p equal to the stored reference point changes no field of
\* the buffer and returns isValid(); no validate makes a buffer valid that was not,
\* and on such a buffer it returns false.
C6_Step ==
    \A b \in Buffers, p \in Points :
        ValidateCore(b, p) =>
            /\ buffers[b].m_ref = p =>
                   (buffers'[b] = buffers[b] /\ last'.ret = isValid(buffers[b]))
            /\ ~isValid(buffers[b]) => (~isValid(buffers'[b]) /\ last'.ret = FALSE)

C6_ValidateSamePoint == [][C6_Step]_vars

C6_Witness ==
    /\ last.op = "validate"
    /\ last.buf = 1
    /\ last.ret
    /\ isValid(buffers[1])
    /\ buffers[1].m_ref = 1

\* C7: a repaint() that follows another unacknowledged repaint() changes nothing in
\* the pool; canRepaint(true) with a request pending returns true and leaves the
\* two counters equal; a canRepaint that directly follows a canRepaint(true), the
\* refresh time not elapsed, returns false.
C7_Step ==
    /\ (last'.op = "repaint" /\ requested.pending > 0) =>
           UNCHANGED <<poolVars, m_refreshTimer, buffers, ub>>
    /\ (last.op = "repaint" /\ last'.op = "canRepaintAuto") =>
           (last'.ret /\ m_status'.first = m_status'.second)
    /\ (/\ last.op = "canRepaintAuto"
        /\ last'.op \in {"canRepaint", "canRepaintAuto"}
        /\ ~m_refreshTimer) => ~last'.ret

C8_Step ==
    /\ last'.op \in {"canRepaint", "canRepaintAuto"} =>
           last'.ret = (m_status.first # m_status.second \/ m_refreshTimer)
    /\ last'.op = "canRepaint" =>
           (m_status' = m_status /\ requested' = requested)
    /\ (last.op = "canRepaint" /\ last'.op = "canRepaint") => last'.ret = last.ret

C8_CanRepaintResult == [][C8_Step]_vars

C8_Witness ==
    /\ last.op = "canRepaint"
    /\ last.ret
    /\ ~m_refreshTimer
    /\ requested.pending > 0
    /\ m_status.first # m_status.second

C10_Step ==
    /\ (/\ last'.op = "setOpacityLast"
        /\ log # <<>>
        /\ LastEmit(log).floor = m_currentFloor
        /\ LastEmit(log).order = m_currentOrder) =>
           LET e == LastEmit(log)
               n == Len(m_objects[e.floor][e.order])
           IN  /\ ~ub'
               /\ m_state' = m_state
               /\ \E v \in Opacities :
                      m_objects' = [m_objects EXCEPT ![e.floor][e.order][n].state.opacity = v]
    /\ last'.op = "resetState" => m_state'.opacity = 100
    /\ (last'.op = "add" /\ ~last'.noop /\ m_state.opacity = 100) =>
           LET e == LastEmit(log')
               n == Len(m_objects'[e.floor][e.order])
           IN  m_objects'[e.floor][e.order][n].state.opacity = 100

C10_StateChangeIsolation == [][C10_Step]_vars

C10_Witness ==
    /\ last.op = "setOpacityLast"
    /\ ~ub
    /\ m_state.opacity = 100
    /\ Len(m_objects[0][FIRST]) = 2
    /\ m_objects[0][FIRST][1].state.opacity = 100
    /\ m_objects[0][FIRST][2].state.opacity = 50
    /\ m_currentFloor = 0

\* the DrawCall emitted last
LastEmitted ==
    LET e == LastEmit(log)
    IN  m_objects[e.floor][e.order][Len(m_objects[e.floor][e.order])]

\* C11: once the pool has emitted a DrawCall, getOpacity(true) and getClipRect(true)
\* return the opacity and the clip rect stored in the DrawCall emitted last and index
\* no empty bucket; getOpacity(false) and getClipRect(false) return the pending state.
C11_Step ==
    /\ (last'.op = "getOpacityLast" /\ log # <<>>) =>
           (~ub' /\ last'.ret = LastEmitted.state.opacity)
    /\ (last'.op = "getClipRectLast" /\ log # <<>>) =>
           (~ub' /\ last'.ret = LastEmitted.state.clipRect)
    /\ last'.op = "getOpacity" => (~ub' /\ last'.ret = m_state.opacity)
    /\ last'.op = "getClipRect" => (~ub' /\ last'.ret = m_state.clipRect)

C11_LastDrawingAccessors == [][C11_Step]_vars

C11_Witness ==
    /\ last.op = "getOpacityLast"
    /\ ~ub
    /\ log # <<>>
    /\ last.ret = 50
    /\ m_state.opacity = 100
    /\ m_state.clipRect = 1
    /\ LastEmitted.state.clipRect = 0

\* C12: selecting a pool changes no pool; a setter, reset, add, flush, repaint or
\* canRepaint(true) on the selected pool changes no other pool (pending state,
\* status, buckets, cursors); whether a pool is rebuilt is decided by its own status
\* and timer.
C12_Step ==
    /\ last'.op = "select" => \A t \in PoolTypes : PoolOf(t)' = PoolOf(t)
    /\ last'.op # "select" =>
           /\ m_currentPool' = m_currentPool
           /\ \A t \in PoolTypes \ {m_currentPool} : PoolOf(t)' = PoolOf(t)
    /\ last'.op = "canRepaintAuto" =>
           last'.ret = (ThisPool.m_status.first # ThisPool.m_status.second
                        \/ ThisPool.m_refreshTimer)

C12_OwnRequest ==
    (last'.op = "canRepaintAuto" /\ last'.ret) => m_currentPool \in requested.by

CompositionOrder ==
    <<DrawPoolType.MAP, DrawPoolType.CREATURE_INFORMATION, DrawPoolType.LIGHT,
      DrawPoolType.TEXT, DrawPoolType.FOREGROUND>>

\* the place of pool type t in that order
CompositionPlace(t) == CHOOSE i \in 1..Len(CompositionOrder) : CompositionOrder[i] = t

\* C13: every composition visits the pools in the order MAP, CREATURE_INFORMATION,
\* LIGHT, TEXT, FOREGROUND: the pools composited by a draw are the enabled pools,
\* each once, in that order, whatever was selected, enabled, disabled or asked to
\* repaint before.
C13_Ascending ==
    \A i, j \in 1..Len(drawn) :
        i < j => CompositionPlace(drawn[i]) < CompositionPlace(drawn[j])

C13_Step ==
    last'.op = "draw" =>
        \A k \in 1..Len(CompositionOrder) :
            PoolOf(CompositionOrder[k]).m_enabled
                <=> (\E i \in 1..Len(drawn') : drawn'[i] = CompositionOrder[k])

C13_CompositionOrder == []C13_Ascending /\ [][C13_Step]_vars

C13_Witness ==
    /\ last.op = "draw"
    /\ drawn = <<DrawPoolType.MAP, DrawPoolType.LIGHT, DrawPoolType.FOREGROUND>>
    /\ m_currentPool = DrawPoolType.TEXT
    /\ ~m_enabled

\* C14: flush() empties the hash index, moves the floor cursor up by one when it is
\* below MAX_Z and leaves it when it is MAX_Z; the floor cursor is always within
\* 0..MAX_Z, an index of the bucket array.
C14_Floor ==
    /\ m_currentFloor \in 0..MAX_Z
    /\ m_currentFloor \in DOMAIN m_objects
    /\ last.op = "flush" => m_objectsByhash = EmptyMap

C14_Step ==
    last'.op = "flush" =>
        m_currentFloor' = IF m_currentFloor < MAX_Z THEN m_currentFloor + 1 ELSE MAX_Z

C14_FlushFloor == []C14_Floor /\ [][C14_Step]_vars

C14_Witness ==
    /\ last.op = "flush"
    /\ m_currentFloor = MAX_Z
    /\ log # <<>>
    /\ LastEmit(log).floor = MAX_Z
    /\ buffers[1].m_hashs # <<>>
    /\ m_objectsByhash = EmptyMap

\* C15: flush() leaves the buckets, the pending state, the order cursor, the enabled
\* flag and the status unchanged; a bucket [0][FIRST] that holds one DrawCall with one
\* method and opacity 1 holds exactly that after flush().
C15_Step ==
    last'.op = "flush" =>
        /\ UNCHANGED <<m_objects, m_state, m_currentOrder, m_enabled, m_status>>
        /\ (/\ m_currentFloor = 0
            /\ m_currentOrder = FIRST
            /\ Len(m_objects[0][FIRST]) = 1
            /\ Len(MethodList(m_objects[0][FIRST][1])) = 1
            /\ m_objects[0][FIRST][1].state.opacity = 100)
           => /\ Len(m_objects'[0][FIRST]) = 1
              /\ Len(MethodList(m_objects'[0][FIRST][1])) = 1
              /\ m_objects'[0][FIRST][1].state.opacity = 100

C15_FlushKeeps == [][C15_Step]_vars

C15_Witness ==
    /\ last.op = "flush"
    /\ m_currentFloor = 1
    /\ Len(log) = 1
    /\ Len(m_objects[0][FIRST]) = 1
    /\ Len(MethodList(m_objects[0][FIRST][1])) = 1
    /\ m_objects[0][FIRST][1].state.opacity = 100
    /\ m_state.opacity = 50

\* C16: after clear() every bucket of every floor 0..MAX_Z and of the five orders is
\* empty and the hash index is empty.
C16_ClearEmpties ==
    last.op = "clear" =>
        /\ \A f \in 0..MAX_Z, o \in DrawOrders : m_objects[f][o] = <<>>
        /\ m_objectsByhash = EmptyMap

C16_Witness ==
    /\ last.op = "clear"
    /\ m_currentFloor = 1
    /\ buffers[1].m_hashs # <<>>
    /\ buffers[1].m_order = SECOND

\* C17: resetState() puts the pending state back to opacity 1, no clip, no shader,
\* composition NORMAL, blend ADD and color white; each single reset writes its own
\* field only; none of them touches another pending field, an emitted DrawCall or a
\* cursor.
Defaults == [opacity |-> 100, clipRect |-> 0, shaderProgram |-> 0,
             compositionMode |-> "NORMAL", blendEquation |-> "ADD", color |-> 0]

ResetField == [resetOpacity |-> "opacity", resetClipRect |-> "clipRect",
               resetShaderProgram |-> "shaderProgram",
               resetCompositionMode |-> "compositionMode",
               resetBlendEquation |-> "blendEquation"]

C17_Step ==
    /\ last'.op = "resetState" =>
           /\ \A f \in DOMAIN Defaults : m_state'[f] = Defaults[f]
           /\ UNCHANGED <<m_objects, m_currentFloor, m_currentOrder>>
    /\ last'.op \in DOMAIN ResetField =>
           /\ m_state' = [m_state EXCEPT ![ResetField[last'.op]] =
                                              Defaults[ResetField[last'.op]]]
           /\ UNCHANGED <<m_objects, m_currentFloor, m_currentOrder>>

C17_Resets == [][C17_Step]_vars

C17_Witness ==
    /\ last.op = "resetClipRect"
    /\ m_state.clipRect = 0
    /\ m_state.opacity = 50
    /\ m_state.shaderProgram = 1
    /\ m_state.compositionMode = "MULTIPLY"
    /\ m_state.blendEquation = "MAX"
    /\ Len(m_objects[0][FIRST]) = 1
    /\ m_objects[0][FIRST][1].state.clipRect = 1

\* C18: two PoolStates are equal exactly when they agree on transform, color,
\* opacity, composition, blend, clip, texture and shader; the action closure is not
\* compared; the relation is reflexive, symmetric and transitive.
Compared == {"transformMatrix", "color", "opacity", "compositionMode",
             "blendEquation", "clipRect", "texture", "shaderProgram"}

C18_Step ==
    last'.op = "equals" =>
        LET a == last'.buf[1]
            b == last'.buf[2]
        IN  /\ last'.ret = (\A f \in Compared : a[f] = b[f])
            /\ PoolStateEq(a, a) /\ PoolStateEq(b, b)
            /\ PoolStateEq(b, a) = last'.ret
            /\ (last.op = "equals" /\ last.ret /\ last'.ret)
                   => PoolStateEq(last.buf[1], b)

C18_Equality == [][C18_Step]_vars

C18_Witness ==
    /\ last.op = "equals"
    /\ last.ret
    /\ last.buf[1].action # last.buf[2].action
    /\ last.buf[1].texture = 1

\* C19: an add that emits merges into the DrawCall that immediately precedes it in
\* its bucket, or else appends exactly one new DrawCall that holds the pending state
\* with the colour and texture of the call; an earlier DrawCall of the bucket is never
\* the target, even when its state equals the state of the call.
C19_Step ==
    (last'.op = "add" /\ ~last'.noop) =>
        LET e == LastEmit(log')
            list == m_objects[e.floor][e.order]
            list2 == m_objects'[e.floor][e.order]
            state == [m_state EXCEPT !.color = e.color, !.texture = e.texture]
            n == Len(list)
        IN  /\ \A i \in 1..(n - 1) : list2[i] = list[i]
            /\ IF /\ n > 0
                  /\ \A f \in Compared : list[n].state[f] = state[f]
                  /\ list[n].drawMode = TRIANGLES
                  /\ e.mode = TRIANGLES
               THEN /\ Len(list2) = n
                    /\ MethodList(list2[n]) = Append(MethodList(list[n]), e.method)
               ELSE /\ Len(list2) = n + 1
                    /\ n > 0 => list2[n] = list[n]
                    /\ list2[n + 1].state = state
                    /\ list2[n + 1].drawMode = e.mode
                    /\ MethodList(list2[n + 1]) = <<e.method>>

C19_AdjacentMerge == [][C19_Step]_vars

C19_Witness ==
    LET list == m_objects[0][FIRST]
    IN  /\ last.op = "add"
        /\ last.opened
        /\ Len(list) = 3
        /\ \A i \in 1..3 : list[i].drawMode = TRIANGLES
        /\ list[1].state = list[3].state
        /\ list[2].state # list[1].state
        /\ Len(MethodList(list[1])) = 1

\* C20: an add with a DrawBuffer that groups (agroup), that is valid and whose
\* combined hash is in the hash index changes no bucket, not the index, not the
\* pending state and no cursor; an add for which one of the three does not hold
\* emits its geometry.
C20_Step ==
    \A color \in Colors, texture \in Textures, method \in Methods,
       db \in {NoBuffer} \cup Buffers :
        AddCore(color, texture, method, TRIANGLES, db) =>
            LET h == Hash(AddState(color, texture), method)
                order == IF db = NoBuffer THEN FIRST ELSE buffers[db].m_order
            IN  IF /\ db # NoBuffer
                   /\ buffers[db].m_agroup
                   /\ buffers[db].m_i > -1
                   /\ h \in DOMAIN m_objectsByhash
                THEN /\ last'.noop
                     /\ UNCHANGED <<m_objects, m_objectsByhash, m_state,
                                    m_currentFloor, m_currentOrder>>
                ELSE /\ ~last'.noop
                     /\ Len(log') = Len(log) + 1
                     /\ BucketMethods(m_objects', m_currentFloor, order)
                            = Append(BucketMethods(m_objects, m_currentFloor, order), method)

C20_DedupFastPath == [][C20_Step]_vars

C20_Witness ==
    /\ last.op = "add"
    /\ last.noop
    /\ last.buf = 1
    /\ buffers[1].m_agroup
    /\ isValid(buffers[1])
    /\ Len(log) = 1
    /\ Len(m_objects[0][FIRST]) = 1
    /\ DOMAIN m_objectsByhash = {Hash(m_objects[0][FIRST][1].state, 1)}

\* C21: after an add that is given a DrawBuffer which is not a temporary one and that
\* is not a dedup no-op, the combined hash of the call is the last element of the
\* hash history of the buffer, which grew by one, and the buffer is valid: validate
\* with its reference point returns true.
C21_Grows(db) ==
    LET e == LastEmit(log')
        h == Hash([m_state EXCEPT !.color = e.color, !.texture = e.texture], e.method)
    IN  buffers'[db].m_hashs = Append(buffers[db].m_hashs, h)

C21_Marked(db) == isValid(validate(buffers'[db], buffers'[db].m_ref))

C21_Step ==
    \A db \in Buffers :
        (last'.op = "add" /\ last'.buf = db /\ ~last'.noop /\ buffers[db].m_i # -2)
            => C21_Grows(db) /\ C21_Marked(db)

C21_StepAnyBuffer ==
    \A db \in Buffers :
        (last'.op = "add" /\ last'.buf = db /\ ~last'.noop)
            => C21_Grows(db) /\ C21_Marked(db)

C22_TemporaryStays == isTemporary(buffers[2]) /\ ~isValid(buffers[2])

C22_Witness ==
    /\ last.op = "validate"
    /\ last.buf = 2
    /\ buffers[2].m_ref = 1
    /\ buffers[2].m_i = -1
    /\ buffers[2].m_hashs = <<>>

\* C23: a DrawBuffer is always in exactly one of the states invalid, temporary and
\* valid; the public constructor builds an invalid one; isValid() and isTemporary()
\* return the state and change nothing.
OneOf(a, b, c) == (a /\ ~b /\ ~c) \/ (~a /\ b /\ ~c) \/ (~a /\ ~b /\ c)

C23_OneIdentity ==
    /\ \A b \in Buffers :
           OneOf(buffers[b].m_i = -1, isTemporary(buffers[b]), isValid(buffers[b]))
    /\ \A order \in DrawOrders, agroup \in BOOLEAN :
           /\ DrawBuffer(order, agroup).m_i = -1
           /\ ~isValid(DrawBuffer(order, agroup))
           /\ ~isTemporary(DrawBuffer(order, agroup))
    /\ last.op = "init" => ~isValid(buffers[1]) /\ ~isTemporary(buffers[1])

C23_Step ==
    /\ last'.op = "isValid" =>
           (UNCHANGED <<buffers, poolVars>> /\ last'.ret = (buffers[last'.buf].m_i > -1))
    /\ last'.op = "isTemporary" =>
           (UNCHANGED <<buffers, poolVars>> /\ last'.ret = (buffers[last'.buf].m_i = -2))

C23_Identity == []C23_OneIdentity /\ [][C23_Step]_vars

C23_Witness ==
    /\ last.op = "isValid"
    /\ last.buf = 1
    /\ last.ret
    /\ buffers[1].m_i = 1
    /\ buffers[2].m_i = -2

\* C24: each frame takes the pool from Idle to Rebuilding when canRepaint(true) is
\* true and to ReplayCached when it is false, from either to Flushed by one flush,
\* and from Flushed back to Idle; every frame that begins is flushed and every
\* flushed frame ends; from the choice of ReplayCached to the flush no DrawCall is
\* added to or removed from a bucket.
LifecycleMoves ==
    {<<"Idle", "Rebuilding">>, <<"Idle", "ReplayCached">>, <<"Rebuilding", "Flushed">>,
     <<"ReplayCached", "Flushed">>, <<"Flushed", "Idle">>}

C24_Step ==
    /\ lifecycle' # lifecycle => <<lifecycle, lifecycle'>> \in LifecycleMoves
    /\ (lifecycle = "Idle" /\ lifecycle' # "Idle") =>
           /\ last'.op = "canRepaintAuto"
           /\ lifecycle' = IF m_status.first # m_status.second \/ m_refreshTimer
                            THEN "Rebuilding" ELSE "ReplayCached"
    /\ last'.op = "flush" <=> (lifecycle # "Flushed" /\ lifecycle' = "Flushed")
    /\ (lifecycle = "ReplayCached" \/ lifecycle' = "ReplayCached") =>
           m_objects' = m_objects

C25_Step ==
    /\ m_status'.first >= m_status.first
    /\ m_status'.second >= m_status.second

C25_MonotonicStatus == [][C25_Step]_vars

C25_Witness ==
    /\ last.op = "canRepaintAuto"
    /\ last.ret
    /\ ~m_refreshTimer
    /\ m_status = [first |-> 0, second |-> 0]

\* C26: an add or a setter with onLastDrawing that directly follows a flush changes
\* no DrawCall the pool held at that flush, neither its methods nor its state.
C26_Step ==
    (last.op = "flush" /\ last'.op \in {"add", "setOpacityLast"}) =>
        \A f \in Floors, o \in Orders :
            \A i \in 1..Len(m_objects[f][o]) :
                /\ Len(m_objects'[f][o]) >= i
                /\ m_objects'[f][o][i] = m_objects[f][o][i]

C26_ImmutableOnceFlushed == [][C26_Step]_vars

C26_Witness ==
    /\ last.op = "flush"
    /\ m_currentFloor = MAX_Z
    /\ m_currentOrder = FIRST
    /\ Len(m_objects[MAX_Z][FIRST]) = 1
    /\ PoolStateEq(m_objects[MAX_Z][FIRST][1].state, m_state)
    /\ m_objects[MAX_Z][FIRST][1].drawMode = TRIANGLES

\* C27: addMethod leaves the DrawObject in mode TRIANGLES whatever mode it was built
\* with and keeps its single method field next to the method list; a DrawObject that
\* never received addMethod keeps the mode it was built with and has no method list.
C27_Object ==
    /\ last.op = "DrawObject" =>
           /\ last.ret.drawMode = last.buf[1]
           /\ last.ret.method = last.buf[2]
           /\ last.ret.methods = <<>>
    /\ last.op = "addMethod" =>
           /\ last.ret.drawMode = TRIANGLES
           /\ last.ret.method = last.buf[2]
           /\ Len(last.ret.methods) >= 2
           /\ last.ret.methods[1] = last.ret.method

C27_Step ==
    last'.op = "addMethod" =>
        /\ last'.ret.method = last.ret.method
        /\ last'.ret.state = last.ret.state
        /\ Len(last'.ret.methods) = Len(MethodList(last.ret)) + 1
        /\ \A i \in 1..Len(MethodList(last.ret)) :
               last'.ret.methods[i] = MethodList(last.ret)[i]

C27_AddMethod == []C27_Object /\ [][C27_Step]_vars

C27_Witness ==
    /\ last.op = "addMethod"
    /\ last.buf[1] = TRIANGLE_STRIP
    /\ last.ret.drawMode = TRIANGLES
    /\ last.ret.method = 2
    /\ last.ret.methods = <<2, 1, 1>>

\* C28: a pool as constructed is enabled, has both cursors at 0, every bucket and
\* the hash index empty, the default pending state and the status pair 1 and 0; a
\* canRepaint called on it first returns true although repaint() was never called.
C28_NewPool ==
    last.op = "init" =>
        /\ m_enabled
        /\ m_currentFloor = 0
        /\ m_currentOrder = 0
        /\ \A f \in Floors, o \in Orders : m_objects[f][o] = <<>>
        /\ DOMAIN m_objectsByhash = {}
        /\ m_state.opacity = 100
        /\ m_state.compositionMode = "NORMAL"
        /\ m_state.blendEquation = "ADD"
        /\ m_status.first = 1
        /\ m_status.second = 0
        /\ requested.pending = 0

C28_Step ==
    (last.op = "init" /\ last'.op \in {"canRepaint", "canRepaintAuto"}) => last'.ret

C28_Construction == []C28_NewPool /\ [][C28_Step]_vars

C28_Witness ==
    /\ last.op = "canRepaint"
    /\ last.ret
    /\ ~m_refreshTimer
    /\ requested.pending = 0
    /\ m_status = [first |-> 1, second |-> 0]
    /\ m_objects = EmptyObjects
    /\ m_currentFloor = 0

\* ------------------------------------------------------------- UIWidget
\* A Rect over two cells: bit 0 is the inner cell, bit 1 the outer one. 0 is the
\* default Rect(), which is not valid.
Rects == 0..3

\* Rect::intersection
RectAnd(a, b) == ((a % 2) * (b % 2)) + (2 * (((a \div 2) % 2) * ((b \div 2) % 2)))

\* Rect::isValid
RectIsValid(r) == r # 0

\* the smaller of two opacities
MinOpacity(a, b) == IF a < b THEN a ELSE b

\* Fw::MIN_ALPHA, the opacity below which a child is not drawn
MIN_ALPHA == 1

\* the widgets of a tree, the root first; each draws itself with one call
Widgets == 1..MaxEmits

\* the widget drawn first
RootWidget == 1

\* the opacities a widget can have
WidgetOpacities == {0, 25, 50, 100}

\* the panes UIWidget::draw is called for
DrawPanes == {"ForegroundPane", "BackgroundPane"}

\* UIWidget::getPaddingRect: m_rect shrunk by m_padding, which takes the outer cell
getPaddingRect(w) ==
    IF widgets[w].m_padding = 0 THEN widgets[w].m_rect ELSE RectAnd(widgets[w].m_rect, 1)

\* the children lists of the tree in which parent[c] is the parent of c
ChildrenOf(parent, w) ==
    LET RECURSIVE From(_)
        From(c) == IF c > MaxEmits THEN <<>>
                   ELSE IF parent[c] = w THEN <<c>> \o From(c + 1)
                   ELSE From(c + 1)
    IN  From(2)

\* the trees over Widgets: every widget but the root has a parent before it
Parents == {parent \in [Widgets \ {RootWidget} -> Widgets] :
                \A c \in Widgets \ {RootWidget} : parent[c] < c}

\* a widget tree with the given shape and attributes
Tree(parent, clipping, opacity, rect, padding) ==
    [w \in Widgets |-> [m_children |-> ChildrenOf(parent, w),
                        m_visible  |-> TRUE,
                        m_clipping |-> clipping[w],
                        m_opacity  |-> opacity[w],
                        m_rect     |-> rect[w],
                        m_padding  |-> padding[w]]]

\* an activation of UIWidget::draw: its arguments and locals, and the pending
\* opacity and clip rect when it was entered (history)
Activation(w, visibleRect) ==
    [w |-> w, pc |-> "enter", visibleRect |-> visibleRect, oldClipRect |-> 0,
     i |-> 0, oldOpacity |-> 0,
     entryOpacity |-> m_state.opacity, entryClipRect |-> m_state.clipRect,
     loopOpacity |-> 0]

\* the running activation
Top == stack[Len(stack)]

\* the stack with the running activation replaced
SetTop(f) == [stack EXCEPT ![Len(stack)] = f]

\* one step of the traversal that emits nothing
UIStep(name, state, stk) ==
    /\ ~ub
    /\ m_state' = state
    /\ stack' = stk
    /\ last' = Op(name, NoBuffer, FALSE, FALSE, FALSE)
    /\ UNCHANGED <<m_enabled, m_currentOrder, m_currentFloor, m_status, m_refreshTimer,
                   m_objects, m_objectsByhash, buffers, ub, log, frames, requested,
                   m_currentPool, m_pools, drawn, lifecycle, widgets, appVars>>

\* the root widget is drawn with its own rect as the visible rect
UIDrawRoot ==
    /\ uiroot.status = "before"
    /\ \E pane \in DrawPanes :
        uiroot' = [status |-> "drawing", opacity |-> m_state.opacity,
                   clipRect |-> m_state.clipRect, pane |-> pane]
    /\ UIStep("draw", m_state,
              <<Activation(RootWidget, widgets[RootWidget].m_rect)>>)

\* UIWidget::draw, its entry: a clipping widget saves the clip rect and sets it to
\* the visible rect
DrawEnter ==
    /\ stack # <<>>
    /\ Top.pc = "enter"
    /\ UNCHANGED uiroot
    /\ IF widgets[Top.w].m_clipping
       THEN UIStep("draw.enter", [m_state EXCEPT !.clipRect = Top.visibleRect],
                   SetTop([Top EXCEPT !.pc = "self", !.oldClipRect = m_state.clipRect]))
       ELSE UIStep("draw.enter", m_state, SetTop([Top EXCEPT !.pc = "self"]))

\* UIWidget::drawSelf: the widget is drawn with one call in the foreground pane
DrawSelf ==
    /\ stack # <<>>
    /\ Top.pc = "self"
    /\ LET pc == IF widgets[Top.w].m_children # <<>> THEN "padding" ELSE "exit"
           stk == SetTop([Top EXCEPT !.pc = pc])
       IN  IF uiroot.pane = "ForegroundPane"
           THEN /\ AddCore(0, 0, 1, TRIANGLES, NoBuffer)
                /\ stack' = stk
                /\ UNCHANGED <<frames, requested, m_currentPool, m_pools, drawn,
                               lifecycle, widgets, uiroot, appVars>>
           ELSE /\ UIStep("drawSelf", m_state, stk)
                /\ UNCHANGED uiroot

\* UIWidget::draw before its children: a clipping widget narrows the clip rect to
\* its padding rect, and drawChildren is entered
DrawPadding ==
    /\ stack # <<>>
    /\ Top.pc = "padding"
    /\ UNCHANGED uiroot
    /\ LET f == [Top EXCEPT !.pc = "children", !.i = 1, !.loopOpacity = m_state.opacity]
       IN  IF widgets[Top.w].m_clipping
           THEN UIStep("drawChildren",
                       [m_state EXCEPT
                            !.clipRect = RectAnd(Top.visibleRect, getPaddingRect(Top.w))],
                       SetTop(f))
           ELSE UIStep("drawChildren", m_state, SetTop(f))

\* UIWidget::drawChildren, one turn of its loop up to the call of the child's draw
DrawChild ==
    /\ stack # <<>>
    /\ Top.pc = "children"
    /\ UNCHANGED uiroot
    /\ LET children == widgets[Top.w].m_children IN
       IF Top.i > Len(children)
       THEN UIStep("drawChildren.return", m_state, SetTop([Top EXCEPT !.pc = "exit"]))
       ELSE LET child == children[Top.i]
                childVisibleRect == RectAnd(Top.visibleRect, widgets[child].m_rect)
            IN  IF \/ ~widgets[child].m_visible
                   \/ ~RectIsValid(widgets[child].m_rect)
                   \/ widgets[child].m_opacity < MIN_ALPHA
                   \/ ~RectIsValid(childVisibleRect)
                THEN UIStep("drawChildren.skip", m_state,
                            SetTop([Top EXCEPT !.i = Top.i + 1]))
                ELSE LET oldOpacity == m_state.opacity
                         state == IF widgets[child].m_opacity < oldOpacity
                                  THEN [m_state EXCEPT !.opacity = widgets[child].m_opacity]
                                  ELSE m_state
                         called == [Activation(child, childVisibleRect)
                                        EXCEPT !.entryOpacity = state.opacity]
                     IN  UIStep("drawChildren.child", state,
                                Append(SetTop([Top EXCEPT !.pc = "restore",
                                                          !.oldOpacity = oldOpacity]),
                                       called))

\* drawChildren after a child that leaves the pending opacity as the child had it
DrawRestoreKeepsOpacity ==
    /\ stack # <<>>
    /\ Top.pc = "restore"
    /\ UNCHANGED uiroot
    /\ UIStep("drawChildren.restore", m_state,
              SetTop([Top EXCEPT !.pc = "children", !.i = Top.i + 1]))

\* UIWidget::drawChildren after the child's draw returned: the opacity is restored
DrawRestore ==
    /\ stack # <<>>
    /\ Top.pc = "restore"
    /\ UNCHANGED uiroot
    /\ UIStep("drawChildren.restore", [m_state EXCEPT !.opacity = Top.oldOpacity],
              SetTop([Top EXCEPT !.pc = "children", !.i = Top.i + 1]))

\* a draw whose exit leaves the clip rect as the widget set it
DrawExitKeepsClipRect ==
    /\ stack # <<>>
    /\ Top.pc = "exit"
    /\ UNCHANGED uiroot
    /\ UIStep("draw.exit", m_state, SubSeq(stack, 1, Len(stack) - 1))

\* UIWidget::draw, its exit: a clipping widget restores the saved clip rect
DrawExit ==
    /\ stack # <<>>
    /\ Top.pc = "exit"
    /\ UNCHANGED uiroot
    /\ IF widgets[Top.w].m_clipping
       THEN UIStep("draw.exit", [m_state EXCEPT !.clipRect = Top.oldClipRect],
                   SubSeq(stack, 1, Len(stack) - 1))
       ELSE UIStep("draw.exit", m_state, SubSeq(stack, 1, Len(stack) - 1))

\* the traversal of the tree has returned
UIDone == uiroot.status = "drawing" /\ stack = <<>>

\* the steps of one traversal
UITraversal ==
    \/ UIDrawRoot
    \/ DrawEnter
    \/ DrawSelf
    \/ DrawPadding
    \/ DrawChild
    \/ DrawRestore
    \/ DrawExit

\* DrawPool::setOpacity on the pending state before the tree is drawn
PrepareOpacity == uiroot.status = "before" /\ SetOpacityPending

\* DrawPool::setClipRect before the tree is drawn
PrepareClipRect == uiroot.status = "before" /\ SetClipRect

\* trees of any shape whose widgets differ in opacity
InitOpacityTree ==
    /\ InitPool(Op("init", NoBuffer, FALSE, FALSE, FALSE))
    /\ \E parent \in Parents, opacity \in [Widgets -> WidgetOpacities] :
        /\ opacity[RootWidget] = 100
        /\ widgets = Tree(parent, [w \in Widgets |-> FALSE], opacity,
                          [w \in Widgets |-> 3], [w \in Widgets |-> 0])

NextOpacity ==
    \/ PrepareOpacity
    \/ UITraversal

SpecOpacity == InitOpacityTree /\ [][NextOpacity]_vars

\* trees of any shape whose widgets differ in clipping, rect and padding; only
\* a clipping widget reads its padding
InitClipTree ==
    /\ InitPool(Op("init", NoBuffer, FALSE, FALSE, FALSE))
    /\ \E parent \in Parents, clipping \in [Widgets -> BOOLEAN],
          rect \in [Widgets -> {1, 2, 3}], padding \in [Widgets -> {0, 1}] :
        /\ rect[RootWidget] = 3
        /\ \A w \in Widgets \ {RootWidget} : rect[w] # 3
        /\ \A w \in Widgets : ~clipping[w] => padding[w] = 0
        /\ widgets = Tree(parent, clipping, [w \in Widgets |-> 100], rect, padding)

NextClip ==
    \/ PrepareClipRect
    \/ UITraversal

SpecClip == InitClipTree /\ [][NextClip]_vars

\* ------------------------------------------------------------- C29
\* C29: UIWidget::drawChildren leaves the pending opacity as it found it, and
\* while a child is being drawn the pending opacity is the smaller of the opacity
\* drawChildren found and the child's own; so the pending opacity never grows
\* along a path from the root, and after the traversal it is what it was before.
C29_LoopKeeps ==
    (stack # <<>> /\ Top.pc = "children") => m_state.opacity = Top.loopOpacity

C29_WhileChildDrawn ==
    (Len(stack) >= 2 /\ Top.pc # "restore") =>
        m_state.opacity = MinOpacity(stack[Len(stack) - 1].loopOpacity,
                                     widgets[Top.w].m_opacity)

C29_PathNonIncreasing ==
    \A k \in 1..(Len(stack) - 1) : stack[k + 1].entryOpacity <= stack[k].entryOpacity

C29_TraversalKeeps == UIDone => m_state.opacity = uiroot.opacity

C29_Step ==
    last'.op = "drawChildren.return" => m_state'.opacity = Top.loopOpacity

C29_Opacity ==
    /\ [](C29_LoopKeeps /\ C29_WhileChildDrawn /\ C29_PathNonIncreasing
          /\ C29_TraversalKeeps)
    /\ [][C29_Step]_vars

\* the tree was drawn with a child at 50 and a grandchild at 25 under a pending
\* opacity of 100, and the pending opacity is 100 again
C29_Witness ==
    /\ UIDone
    /\ uiroot.opacity = 100
    /\ m_state.opacity = 100
    /\ \E i, j \in DOMAIN m_objects[0][FIRST] :
        /\ m_objects[0][FIRST][i].state.opacity = 50
        /\ m_objects[0][FIRST][j].state.opacity = 25

\* ------------------------------------------------------------- C30
\* C30: UIWidget::draw leaves the pending clip rect as it found it, whatever the
\* tree and its clipping flags: a clipping widget sets the clip rect to its
\* visible rect, to the visible rect within its padding rect for its children,
\* and to the saved one on exit; a widget that does not clip never changes it.
C30_Clipping ==
    (stack # <<>> /\ widgets[Top.w].m_clipping) =>
        LET inPadding == RectAnd(Top.visibleRect, getPaddingRect(Top.w)) IN
        /\ Top.pc \in {"self", "padding"} => m_state.clipRect = Top.visibleRect
        /\ Top.pc = "children" => m_state.clipRect = inPadding
        /\ Top.pc = "exit" =>
               m_state.clipRect = IF widgets[Top.w].m_children # <<>>
                                  THEN inPadding ELSE Top.visibleRect

C30_NotClipping ==
    (stack # <<>> /\ ~widgets[Top.w].m_clipping /\ Top.pc # "restore") =>
        m_state.clipRect = Top.entryClipRect

C30_TraversalKeeps == UIDone => m_state.clipRect = uiroot.clipRect

C30_Step ==
    /\ last'.op = "draw.exit" =>
           /\ m_state'.clipRect = Top.entryClipRect
           /\ widgets[Top.w].m_clipping => m_state'.clipRect = Top.oldClipRect
    /\ last'.op = "drawChildren.restore" =>
           m_state'.clipRect =
               IF widgets[Top.w].m_clipping
               THEN RectAnd(Top.visibleRect, getPaddingRect(Top.w))
               ELSE Top.entryClipRect

C30_ClipRect ==
    /\ [](C30_Clipping /\ C30_NotClipping /\ C30_TraversalKeeps)
    /\ [][C30_Step]_vars

\* a clipping root with padding and a clipping child were drawn under a pending
\* clip rect of 1, with clip rects 3 and 2, and the pending clip rect is 1 again
C30_Witness ==
    /\ UIDone
    /\ uiroot.clipRect = 1
    /\ m_state.clipRect = 1
    /\ widgets[RootWidget].m_clipping
    /\ widgets[RootWidget].m_padding = 1
    /\ \E i, j \in DOMAIN m_objects[0][FIRST] :
        /\ m_objects[0][FIRST][i].state.clipRect = 3
        /\ m_objects[0][FIRST][j].state.clipRect = 2

\* ------------------------------------------------------------- UIWidget children
\* nullptr
Null == 0

\* the widgets that are put into trees
WidgetIds == {1, 2, 3}

\* Fw::AutoFocusPolicy
AutoFocusNone == "AutoFocusNone"
AutoFocusLast == "AutoFocusLast"

\* a UIWidget as its default member initialisers leave it
NewWidget ==
    [m_parent |-> Null, m_children |-> <<>>, m_lockedChildren |-> <<>>,
     m_focusedChild |-> Null, m_childIndex |-> -1,
     m_enabled |-> TRUE, m_visible |-> TRUE, m_focusable |-> TRUE,
     m_destroyed |-> FALSE, m_autoFocusPolicy |-> AutoFocusLast,
     m_rect |-> 0, m_updateEventScheduled |-> FALSE, rectAtDispatch |-> 0]

\* std::find on a list: the 1-based position of the first c, 0 when there is none
Find(list, c) ==
    IF \E i \in DOMAIN list : list[i] = c
    THEN CHOOSE i \in DOMAIN list : list[i] = c /\ \A j \in 1..(i - 1) : list[j] # c
    ELSE 0

\* erase of the element std::find found
Erase(list, c) ==
    LET i == Find(list, c)
    IN  IF i = 0 THEN list ELSE SubSeq(list, 1, i - 1) \o SubSeq(list, i + 1, Len(list))

\* insert before the 0-based position k
InsertAt(list, k, c) == SubSeq(list, 1, k) \o <<c>> \o SubSeq(list, k + 1, Len(list))

\* the list reversed
Reverse(list) == [i \in 1..Len(list) |-> list[Len(list) + 1 - i]]

\* m_childIndex += 1 for the widgets at the 0-based positions from..to of list
BumpIndex(W, list, from, to) ==
    [w \in DOMAIN W |->
        IF \E i \in from..to : i + 1 \in DOMAIN list /\ list[i + 1] = w
        THEN [W[w] EXCEPT !.m_childIndex = @ + 1]
        ELSE W[w]]

\* UIWidget::hasChild
hasChild(W, p, c) == Find(W[p].m_children, c) # 0

\* UIWidget::isChildLocked
isChildLocked(W, p, c) == Find(W[p].m_lockedChildren, c) # 0

\* UIWidget::isVisible: the widget and the parents above it are explicitly visible
RECURSIVE isVisible(_, _)
isVisible(W, c) ==
    /\ W[c].m_visible
    /\ W[c].m_parent # Null => isVisible([W EXCEPT ![c].m_parent = Null], W[c].m_parent)

\* UIWidget::isFirstChild
isFirstChild(W, c) == W[c].m_parent # Null /\ W[c].m_childIndex = 1

\* UIWidget::isLastChild
isLastChild(W, c) ==
    W[c].m_parent # Null /\ W[c].m_childIndex = Len(W[W[c].m_parent].m_children)

\* c is p or below p
RECURSIVE Below(_, _, _)
Below(W, p, c) ==
    \/ c = p
    \/ \E i \in DOMAIN W[p].m_children :
          Below([W EXCEPT ![p].m_children = <<>>], W[p].m_children[i], c)

\* UIWidget::focusChild
focusChild(W, p, c) ==
    IF W[p].m_destroyed THEN W
    ELSE IF c = W[p].m_focusedChild THEN W
    ELSE IF c # Null /\ ~hasChild(W, p, c) THEN W
    ELSE [W EXCEPT ![p].m_focusedChild = c]

\* UIWidget::focusPreviousChild(reason, true): the children from the focused one
\* backwards, the first that can take the focus
focusPreviousChild(W, p) ==
    IF W[p].m_destroyed THEN W
    ELSE LET reversed == Reverse(W[p].m_children)
             at == Find(reversed, W[p].m_focusedChild)
             rotated == IF W[p].m_focusedChild # Null /\ at # 0
                        THEN SubSeq(reversed, at + 1, Len(reversed))
                                 \o SubSeq(reversed, 1, at - 1)
                        ELSE reversed
             able == {i \in DOMAIN rotated :
                         /\ W[rotated[i]].m_focusable
                         /\ W[rotated[i]].m_enabled
                         /\ isVisible(W, rotated[i])}
         IN  IF able = {} THEN W
             ELSE LET toFocus == rotated[CHOOSE i \in able : \A j \in able : i <= j]
                  IN  IF toFocus # W[p].m_focusedChild THEN focusChild(W, p, toFocus) ELSE W

\* the loop of lockChild and unlockChild over m_children: setEnabled(true) on the
\* locked child and setEnabled(false) on the others, or setEnabled(true) on all
EnableChildren(W, p, lockedChild) ==
    [w \in DOMAIN W |->
        IF hasChild(W, p, w)
        THEN [W[w] EXCEPT !.m_enabled = (lockedChild = Null \/ w = lockedChild)]
        ELSE W[w]]

\* an unlockChild that takes the child off the list and enables nobody
unlockChildEnablesNobody(W, p, c) ==
    IF W[p].m_destroyed \/ c = Null \/ ~hasChild(W, p, c) \/ ~isChildLocked(W, p, c) THEN W
    ELSE [W EXCEPT ![p].m_lockedChildren = Erase(@, c)]

\* UIWidget::unlockChild
unlockChild(W, p, c) ==
    IF W[p].m_destroyed \/ c = Null \/ ~hasChild(W, p, c) \/ ~isChildLocked(W, p, c) THEN W
    ELSE LET locked == Erase(W[p].m_lockedChildren, c)
             lockedChild == IF locked # <<>> THEN Head(locked) ELSE Null
             W1 == EnableChildren([W EXCEPT ![p].m_lockedChildren = locked], p, lockedChild)
         IN  IF lockedChild # Null /\ W1[lockedChild].m_focusable
             THEN focusChild(W1, p, lockedChild)
             ELSE W1

\* UIWidget::lockChild
lockChild(W, p, c) ==
    IF W[p].m_destroyed \/ c = Null \/ ~hasChild(W, p, c) THEN W
    ELSE LET W0 == IF isChildLocked(W, p, c) THEN unlockChild(W, p, c) ELSE W
             W1 == EnableChildren(W0, p, c)
             W2 == [W1 EXCEPT ![p].m_lockedChildren = <<c>> \o @]
         IN  IF W2[c].m_focusable THEN focusChild(W2, p, c) ELSE W2

RECURSIVE removeChild(_, _, _)
RECURSIVE setParent(_, _, _)
RECURSIVE addChild(_, _, _)

\* a removeChild that takes the child away and leaves the focus on it
removeChildKeepsFocus(W, p, c) ==
    IF ~hasChild(W, p, c) THEN W
    ELSE LET W2 == IF isChildLocked(W, p, c) THEN unlockChild(W, p, c) ELSE W
             W3 == [W2 EXCEPT ![p].m_children = Erase(@, c), ![c].m_childIndex = -1]
         IN  setParent(W3, c, Null)

\* UIWidget::removeChild
removeChild(W, p, c) ==
    IF ~hasChild(W, p, c) THEN W
    ELSE LET focusAnother == W[p].m_focusedChild = c
             W1 == IF focusAnother THEN focusChild(W, p, Null) ELSE W
             W2 == IF isChildLocked(W1, p, c) THEN unlockChild(W1, p, c) ELSE W1
             W3 == [W2 EXCEPT ![p].m_children = Erase(@, c), ![c].m_childIndex = -1]
             W4 == setParent(W3, c, Null)
         IN  IF /\ W4[p].m_autoFocusPolicy # AutoFocusNone
                /\ focusAnother
                /\ W4[p].m_focusedChild = Null
             THEN focusPreviousChild(W4, p)
             ELSE W4

\* UIWidget::setParent
setParent(W, c, parent) ==
    LET oldParent == W[c].m_parent IN
    IF oldParent = parent THEN W
    ELSE LET W1 == IF oldParent # Null /\ hasChild(W, oldParent, c)
                   THEN removeChild(W, oldParent, c) ELSE W
             W2 == [W1 EXCEPT ![c].m_parent = parent]
         IN  IF parent # Null /\ ~hasChild(W2, parent, c)
             THEN addChild(W2, parent, c)
             ELSE W2

\* UIWidget::addChild
addChild(W, p, c) ==
    IF c = Null THEN W
    ELSE IF W[c].m_destroyed \/ hasChild(W, p, c) THEN W
    ELSE LET W1 == [W EXCEPT ![p].m_children = Append(@, c),
                             ![c].m_childIndex = Len(W[p].m_children) + 1]
         IN  setParent(W1, c, p)

\* the position UIWidget::insertChild inserts at: index is a size_t, 0 appends,
\* a negative int wraps and is clamped to the front, a large one to the end
InsertIndex(index, childrenSize) ==
    IF index = 0 THEN childrenSize
    ELSE IF index < 0 THEN 0
    ELSE IF index - 1 > childrenSize THEN childrenSize
    ELSE index - 1

\* UIWidget::insertChild
insertChild(W, p, index, c) ==
    IF c = Null THEN W
    ELSE IF hasChild(W, p, c) THEN W
    ELSE LET childrenSize == Len(W[p].m_children)
             k == InsertIndex(index, childrenSize)
             list == InsertAt(W[p].m_children, k, c)
             W1 == [W EXCEPT ![p].m_children = list, ![c].m_childIndex = k + 1]
             W2 == BumpIndex(W1, list, k + 1, childrenSize - 1)
         IN  IF W[c].m_childIndex = k + 1 THEN W
             ELSE setParent(W2, c, p)

\* UIWidget::lowerChild
lowerChild(W, p, c) ==
    IF W[p].m_destroyed \/ c = Null \/ ~hasChild(W, p, c) THEN W
    ELSE LET list == <<c>> \o Erase(W[p].m_children, c)
             W1 == [W EXCEPT ![p].m_children = list, ![c].m_childIndex = 1]
         IN  BumpIndex(W1, list, 2, Len(list) - 1)

\* UIWidget::raiseChild reads m_children[i] from i = m_childIndex on
raiseChildInRange(W, p, c) == W[c].m_childIndex >= 0

\* UIWidget::raiseChild
raiseChild(W, p, c) ==
    IF W[p].m_destroyed \/ c = Null \/ ~hasChild(W, p, c) THEN W
    ELSE LET list == Erase(W[p].m_children, c) \o <<c>>
             W1 == [W EXCEPT ![p].m_children = list]
             W2 == BumpIndex(W1, list, W[c].m_childIndex, Len(list) - 1)
         IN  [W2 EXCEPT ![c].m_childIndex = Len(list)]

\* UIWidget::moveChildToIndex
moveChildToIndex(W, p, c, index) ==
    LET childrenSize == Len(W[p].m_children) IN
    IF W[p].m_destroyed \/ c = Null THEN W
    ELSE IF W[c].m_childIndex = index THEN W
    ELSE IF index <= 0 \/ index - 1 >= childrenSize THEN W
    ELSE IF ~hasChild(W, p, c) THEN W
    ELSE LET list == InsertAt(Erase(W[p].m_children, c), index - 1, c)
             W1 == [W EXCEPT ![p].m_children = list, ![c].m_childIndex = index]
         IN  BumpIndex(W1, list, index + 1, childrenSize - 1)

\* the operation executed last on the widgets, and the focused child and the
\* locked children of the widget before it
WidgetOp(name, p, c, index) ==
    [op |-> name, buf |-> NoBuffer, ret |-> FALSE, noop |-> FALSE, opened |-> FALSE,
     p |-> p, c |-> c, index |-> index,
     focused |-> widgets[p].m_focusedChild, locked |-> widgets[p].m_lockedChildren]

\* one operation of a widget and the widgets it leaves
WidgetStep(op, W) ==
    /\ ~ub
    /\ widgets' = W
    /\ last' = op
    /\ UNCHANGED <<poolVars, m_refreshTimer, buffers, ub, log, frames, requested,
                   m_currentPool, m_pools, drawn, lifecycle, stack, uiroot, appVars>>

\* the indexes insertChild and moveChildToIndex are called with
Indexes == {-1, 0, 1, 2, 3}

\* addChild of a widget that is not above the parent
AddChild ==
    \E p \in WidgetIds, c \in WidgetIds :
        /\ ~Below(widgets, c, p)
        /\ WidgetStep(WidgetOp("addChild", p, c, 0), addChild(widgets, p, c))

\* insertChild of a widget that is not above the parent
InsertChild ==
    \E p \in WidgetIds, c \in WidgetIds, index \in Indexes :
        /\ ~Below(widgets, c, p)
        /\ WidgetStep(WidgetOp("insertChild", p, c, index),
                      insertChild(widgets, p, index, c))

RemoveChild ==
    \E p \in WidgetIds, c \in WidgetIds :
        WidgetStep(WidgetOp("removeChild", p, c, 0), removeChild(widgets, p, c))

LowerChild ==
    \E p \in WidgetIds, c \in WidgetIds :
        WidgetStep(WidgetOp("lowerChild", p, c, 0), lowerChild(widgets, p, c))

\* raiseChild; with a negative m_childIndex it reads before the first child
RaiseChild ==
    \E p \in WidgetIds, c \in WidgetIds :
        IF hasChild(widgets, p, c) /\ ~widgets[p].m_destroyed
               /\ ~raiseChildInRange(widgets, p, c)
        THEN /\ ~ub
             /\ ub' = TRUE
             /\ last' = WidgetOp("raiseChild", p, c, 0)
             /\ UNCHANGED <<poolVars, m_refreshTimer, buffers, log, frames, requested,
                            mgrVars>>
        ELSE WidgetStep(WidgetOp("raiseChild", p, c, 0), raiseChild(widgets, p, c))

MoveChildToIndex ==
    \E p \in WidgetIds, c \in WidgetIds, index \in Indexes :
        WidgetStep(WidgetOp("moveChildToIndex", p, c, index),
                   moveChildToIndex(widgets, p, c, index))

\* the widgets constructed and not yet in a tree
InitWidgets ==
    /\ InitPool(Op("init", NoBuffer, FALSE, FALSE, FALSE))
    /\ widgets = [w \in WidgetIds |-> NewWidget]

NextChildren ==
    \/ AddChild
    \/ InsertChild
    \/ RemoveChild
    \/ LowerChild
    \/ RaiseChild
    \/ MoveChildToIndex

SpecChildren == InitWidgets /\ [][NextChildren]_vars

\* ------------------------------------------------------------- UIWidget focus
\* UIWidget::internalDestroy
RECURSIVE internalDestroy(_, _)
internalDestroy(W, c) ==
    LET children == W[c].m_children
        W1 == [W EXCEPT ![c].m_destroyed = TRUE, ![c].m_visible = FALSE,
                        ![c].m_enabled = FALSE, ![c].m_focusedChild = Null,
                        ![c].m_parent = Null, ![c].m_lockedChildren = <<>>]
        RECURSIVE Each(_, _)
        Each(X, i) == IF i > Len(children) THEN X
                      ELSE Each(internalDestroy(X, children[i]), i + 1)
    IN  [Each(W1, 1) EXCEPT ![c].m_children = <<>>]

\* UIWidget::destroy
destroy(W, c) ==
    LET W1 == [W EXCEPT ![c].m_destroyed = TRUE]
        parent == W1[c].m_parent
        W2 == IF parent # Null THEN removeChild(W1, parent, c) ELSE W1
    IN  internalDestroy(W2, c)

\* UIWidget::destroyChildren
destroyChildren(W, p) ==
    LET RECURSIVE While(_)
        While(X) ==
            IF X[p].m_children = <<>> THEN X
            ELSE LET child == Head(X[p].m_children)
                     X1 == [X EXCEPT ![p].m_children = Tail(@)]
                     X2 == setParent(X1, child, Null)
                     X3 == destroy(X2, child)
                 IN  While([X3 EXCEPT ![child].m_childIndex = -1])
    IN  While([W EXCEPT ![p].m_focusedChild = Null, ![p].m_lockedChildren = <<>>])

FocusChild ==
    \E p \in WidgetIds, c \in WidgetIds \cup {Null} :
        WidgetStep(WidgetOp("focusChild", p, c, 0), focusChild(widgets, p, c))

Destroy ==
    \E c \in WidgetIds :
        WidgetStep(WidgetOp("destroy", c, c, 0), destroy(widgets, c))

DestroyChildren ==
    \E p \in WidgetIds :
        WidgetStep(WidgetOp("destroyChildren", p, Null, 0), destroyChildren(widgets, p))

LockChild ==
    \E p \in WidgetIds, c \in WidgetIds :
        WidgetStep(WidgetOp("lockChild", p, c, 0), lockChild(widgets, p, c))

UnlockChild ==
    \E p \in WidgetIds, c \in WidgetIds :
        WidgetStep(WidgetOp("unlockChild", p, c, 0), unlockChild(widgets, p, c))

NextFocus ==
    \/ AddChild
    \/ RemoveChild
    \/ FocusChild
    \/ Destroy
    \/ DestroyChildren

SpecFocus == InitWidgets /\ [][NextFocus]_vars

NextLock ==
    \/ AddChild
    \/ RemoveChild
    \/ LockChild
    \/ UnlockChild

SpecLock == InitWidgets /\ [][NextLock]_vars

\* ------------------------------------------------------------- UIWidget geometry
\* a setRect that adds an event whether one is scheduled or not
setRectAlwaysSchedules(W, E, w, rect) ==
    IF rect = W[w].m_rect THEN [W |-> W, E |-> E, ret |-> FALSE]
    ELSE [W |-> [W EXCEPT ![w].m_rect = rect, ![w].m_updateEventScheduled = TRUE],
          E |-> Append(E, [w |-> w, oldRect |-> W[w].m_rect]),
          ret |-> TRUE]

\* UIWidget::setRect on the widgets W and the event queue E
setRect(W, E, w, rect) ==
    IF rect = W[w].m_rect THEN [W |-> W, E |-> E, ret |-> FALSE]
    ELSE [W |-> [W EXCEPT ![w].m_rect = rect, ![w].m_updateEventScheduled = TRUE],
          E |-> IF ~W[w].m_updateEventScheduled
                THEN Append(E, [w |-> w, oldRect |-> W[w].m_rect])
                ELSE E,
          ret |-> TRUE]

\* UIWidget::onGeometryChange: every visible child is bound to the parent rect,
\* that is setRect is called on it with the rect bound[child]
onGeometryChange(W, E, w, bound) ==
    LET children == W[w].m_children
        RECURSIVE Each(_, _)
        Each(X, i) ==
            IF i > Len(children) THEN X
            ELSE IF isVisible(X.W, children[i])
                 THEN Each(setRect(X.W, X.E, children[i], bound[children[i]]), i + 1)
                 ELSE Each(X, i + 1)
    IN  Each([W |-> W, E |-> E, ret |-> FALSE], 1)

\* the geometry operation executed last, what it returned or called
GeometryOp(name, w, ret, oldRect, newRect) ==
    [op |-> name, buf |-> NoBuffer, ret |-> ret, noop |-> FALSE, opened |-> FALSE,
     w |-> w, oldRect |-> oldRect, newRect |-> newRect]

\* one geometry operation and the widgets and events it leaves
GeometryStep(op, W, E) ==
    /\ ~ub
    /\ widgets' = W
    /\ events' = E
    /\ last' = op
    /\ UNCHANGED <<poolVars, m_refreshTimer, buffers, ub, log, frames, requested,
                   m_currentPool, m_pools, drawn, lifecycle, stack, uiroot, tile, manager>>

\* the widgets that are moved: a parent and its child
GeometryWidgets == {1, 2}

\* UIWidget::setRect
SetRect ==
    \E w \in GeometryWidgets, rect \in Rects :
        LET r == setRect(widgets, events, w, rect)
        IN  GeometryStep(GeometryOp("setRect", w, r.ret, widgets[w].m_rect, rect), r.W, r.E)

\* g_dispatcher executes the event added first: the lambda of setRect
Dispatch ==
    /\ events # <<>>
    /\ LET w == Head(events).w
           oldRect == Head(events).oldRect
           W1 == [widgets EXCEPT ![w].m_updateEventScheduled = FALSE,
                                 ![w].rectAtDispatch = widgets[w].m_rect]
           called == oldRect # W1[w].m_rect
       IN  \E bound \in [WidgetIds -> Rects] :
            /\ \A c \in WidgetIds : ~hasChild(widgets, w, c) => bound[c] = 1
            /\ LET r == IF called THEN onGeometryChange(W1, Tail(events), w, bound)
                        ELSE [W |-> W1, E |-> Tail(events)]
               IN  GeometryStep(GeometryOp("dispatch", w, called, oldRect, W1[w].m_rect),
                                r.W, r.E)

\* widget 1 with widget 2 as its child
InitGeometry ==
    /\ InitPool(Op("init", NoBuffer, FALSE, FALSE, FALSE))
    /\ widgets = addChild([w \in WidgetIds |-> NewWidget], 1, 2)

NextGeometry ==
    \/ SetRect
    \/ Dispatch

SpecGeometry == InitGeometry /\ [][NextGeometry]_vars

\* ------------------------------------------------------------- Tile
\* MAX_THINGS, the number of things a tile keeps
MAX_THINGS == 2

\* the effects and the walking creatures followed on a tile
MaxExtras == 1

\* the things that are put on the tile: their kind, their stack priority and
\* the attributes analyzeThing asks for
Things ==
    [t \in 1..7 |->
        CASE t = 1 -> [kind |-> "item", priority |-> 0, isGround |-> TRUE,
                       attrs |-> {"isFullGround", "isOpaque"}]
          [] t = 2 -> [kind |-> "item", priority |-> 1, isGround |-> FALSE,
                       attrs |-> {"isSingleGroundBorder"}]
          [] t = 3 -> [kind |-> "item", priority |-> 2, isGround |-> FALSE,
                       attrs |-> {"isOnBottom", "isNotWalkable", "tall"}]
          [] t = 4 -> [kind |-> "item", priority |-> 3, isGround |-> FALSE,
                       attrs |-> {"isOnTop"}]
          [] t = 5 -> [kind |-> "creature", priority |-> 4, isGround |-> FALSE,
                       attrs |-> {"isCreature", "hasLight", "tall", "isNotWalkable"}]
          [] t = 6 -> [kind |-> "item", priority |-> 5, isGround |-> FALSE,
                       attrs |-> {"isCommon", "hasLight", "hasDisplacement"}]
          [] OTHER -> [kind |-> "effect", priority |-> 5, isGround |-> FALSE,
                       attrs |-> {"hasLight", "isOnTop"}]]

ThingIds == DOMAIN Things

\* Thing::isEffect
isEffect(t) == Things[t].kind = "effect"

\* the things that are no effects
NonEffects == {t \in ThingIds : ~isEffect(t)}

\* the creatures
Creatures == {t \in ThingIds : Things[t].kind = "creature"}

\* the attribute that feeds a counter of m_countFlag
Feeds(counter) ==
    CASE counter = "hasLight" -> "hasLight"
      [] counter = "hasDisplacement" -> "hasDisplacement"
      [] counter = "hasCommonItem" -> "isCommon"
      [] counter = "hasTopItem" -> "isOnTop"
      [] counter = "hasCreature" -> "isCreature"
      [] counter = "hasGroundBorder" -> "isSingleGroundBorder"
      [] counter = "hasBottomItem" -> "isOnBottom"
      [] counter = "hasTallThings" -> "tall"
      [] counter = "hasTallItems" -> "tall"
      [] counter = "notWalkable" -> "isNotWalkable"
      [] counter = "fullGround" -> "isFullGround"
      [] OTHER -> "isOpaque"

\* the counters analyzeThing reaches for a thing: two before the return for an
\* effect, the others of every thing, and the counters of items only
Reached(t) ==
    {"hasLight", "hasDisplacement"}
        \cup (IF isEffect(t) THEN {}
              ELSE {"hasCommonItem", "hasTopItem", "hasCreature", "hasGroundBorder",
                    "hasBottomItem", "hasTallThings"})
        \cup (IF Things[t].kind = "item"
              THEN {"hasTallItems", "notWalkable", "fullGround", "opaque"}
              ELSE {})

\* the counters a thing changes
Counted(t) == {c \in Reached(t) : Feeds(c) \in Things[t].attrs}

\* an analyzeThing that counts up whether the thing comes or goes
analyzeThingCountsUp(T, t, add) ==
    [T EXCEPT !.m_countFlag =
        [c \in CountFlags |-> IF c \in Counted(t) THEN @[c] + 1 ELSE @[c]]]

\* Tile::analyzeThing
analyzeThing(T, t, add) ==
    LET value == IF add THEN 1 ELSE -1
    IN  [T EXCEPT !.m_countFlag =
            [c \in CountFlags |->
                IF c \notin Counted(t) THEN @[c]
                ELSE IF c = "opaque" THEN (IF @[c] + value > 0 THEN @[c] + value ELSE 0)
                ELSE @[c] + value]]

\* Tile::removeThing
removeThing(T, t) ==
    IF t = Null THEN T
    ELSE IF isEffect(t)
    THEN IF Find(T.m_effects, t) = 0 THEN T
         ELSE [analyzeThing(T, t, FALSE) EXCEPT !.m_effects = Erase(T.m_effects, t)]
    ELSE IF Find(T.m_things, t) = 0 THEN T
    ELSE LET T1 == IF Things[t].isGround THEN [T EXCEPT !.m_ground = Null] ELSE T
         IN  [analyzeThing(T1, t, FALSE) EXCEPT !.m_things = Erase(T.m_things, t)]

\* the position Tile::addThing finds for stackPos -1, 255 (by priority) or -2
\* (append), 0-based; newer is g_game.getClientVersion() >= 854
AutoStackPos(list, t, stackPos, newer) ==
    LET priority == Things[t].priority
        append == IF stackPos = -2 THEN TRUE
                  ELSE IF newer /\ priority = 4 THEN ~(priority <= 3)
                  ELSE priority <= 3
        stops == {k \in 1..Len(list) :
                     \/ append /\ Things[list[k]].priority > priority
                     \/ ~append /\ Things[list[k]].priority >= priority}
    IN  IF stops = {} THEN Len(list)
        ELSE (CHOOSE k \in stops : \A j \in stops : k <= j) - 1

\* an addThing that keeps whatever is put on the tile
addThingKeepsAll(T, t, stackPos, newer) ==
    IF t = Null THEN T
    ELSE IF isEffect(t)
    THEN analyzeThing([T EXCEPT !.m_effects =
                           IF "isOnTop" \in Things[t].attrs THEN <<t>> \o @
                           ELSE Append(@, t)], t, TRUE)
    ELSE LET size == Len(T.m_things)
             pos == IF stackPos < 0 \/ stackPos = 255
                    THEN AutoStackPos(T.m_things, t, stackPos, newer)
                    ELSE IF stackPos > size THEN size ELSE stackPos
             T1 == analyzeThing([T EXCEPT !.m_things = InsertAt(@, pos, t)], t, TRUE)
         IN  IF T1.m_ground = Null /\ Things[t].isGround
             THEN [T1 EXCEPT !.m_ground = t]
             ELSE T1

\* Tile::addThing
addThing(T, t, stackPos, newer) ==
    IF t = Null THEN T
    ELSE IF isEffect(t)
    THEN analyzeThing([T EXCEPT !.m_effects =
                           IF "isOnTop" \in Things[t].attrs THEN <<t>> \o @
                           ELSE Append(@, t)], t, TRUE)
    ELSE LET size == Len(T.m_things)
             pos == IF stackPos < 0 \/ stackPos = 255
                    THEN AutoStackPos(T.m_things, t, stackPos, newer)
                    ELSE IF stackPos > size THEN size ELSE stackPos
             T1 == analyzeThing([T EXCEPT !.m_things = InsertAt(@, pos, t)], t, TRUE)
             T2 == IF size > MAX_THINGS
                   THEN removeThing(T1, T1.m_things[MAX_THINGS + 1])
                   ELSE T1
         IN  IF T2.m_ground = Null /\ Things[t].isGround
             THEN [T2 EXCEPT !.m_ground = t]
             ELSE T2

\* Tile::clean
clean(T) ==
    LET RECURSIVE While(_)
        While(X) == IF X.m_things = <<>> THEN X
                    ELSE While(removeThing(X, Head(X.m_things)))
    IN  While([T EXCEPT !.m_countFlag.opaque = 0])

\* Tile::addWalkingCreature
addWalkingCreature(T, t) ==
    analyzeThing([T EXCEPT !.m_walkingCreatures = Append(@, t)], t, TRUE)

\* Tile::removeWalkingCreature
removeWalkingCreature(T, t) ==
    IF Find(T.m_walkingCreatures, t) = 0 THEN T
    ELSE [analyzeThing(T, t, FALSE) EXCEPT
              !.m_walkingCreatures = Erase(T.m_walkingCreatures, t)]

\* the operation executed last on the tile
TileOp(name, t, stackPos) ==
    [op |-> name, buf |-> NoBuffer, ret |-> FALSE, noop |-> FALSE, opened |-> FALSE,
     t |-> t, stackPos |-> stackPos]

\* one operation of the tile and the tile it leaves
TileStep(op, T) ==
    /\ ~ub
    /\ Len(T.m_effects) <= MaxExtras
    /\ Len(T.m_walkingCreatures) <= MaxExtras
    /\ tile' = T
    /\ last' = op
    /\ UNCHANGED <<poolVars, m_refreshTimer, buffers, ub, log, frames, requested,
                   m_currentPool, m_pools, drawn, lifecycle, uiVars, events, manager>>

\* the stack positions that let addThing find the position
AutoStackPositions == {-1, 255, -2}

\* the stack positions addThing is called with
StackPositions == AutoStackPositions \cup {0, 254}

\* a ground, a creature, an item and an effect
FewThings == {1, 5, 6, 7}

\* Tile::addThing with one of the stack positions
AddThingAt(things, positions) ==
    \E t \in things, stackPos \in positions, newer \in BOOLEAN :
        TileStep(TileOp("addThing", t, stackPos), addThing(tile, t, stackPos, newer))

\* Tile::addThing of a thing that is no effect, the position found by addThing
AddThingAuto == AddThingAt(NonEffects, AutoStackPositions)

\* Tile::addThing of a few things at any stack position
AddThing == AddThingAt(FewThings, StackPositions)

\* Tile::removeThing
RemoveThing ==
    \E t \in ThingIds : TileStep(TileOp("removeThing", t, 0), removeThing(tile, t))

\* Tile::addWalkingCreature
AddWalkingCreature ==
    \E t \in Creatures :
        TileStep(TileOp("addWalkingCreature", t, 0), addWalkingCreature(tile, t))

\* Tile::removeWalkingCreature
RemoveWalkingCreature ==
    \E t \in Creatures :
        TileStep(TileOp("removeWalkingCreature", t, 0), removeWalkingCreature(tile, t))

\* Tile::clean
Clean == TileStep(TileOp("clean", Null, 0), clean(tile))

NextTileOrder ==
    \/ AddThingAuto
    \/ RemoveThing

SpecTileOrder == Init /\ [][NextTileOrder]_vars

NextTile ==
    \/ AddThing
    \/ RemoveThing
    \/ AddWalkingCreature
    \/ RemoveWalkingCreature
    \/ Clean

SpecTile == Init /\ [][NextTile]_vars

\* ------------------------------------------------------------- ThingTypeManager
\* how the reading of a file ends: without error, with an exception before any
\* item type is touched, or with an exception after n item types
Outcomes == {0, 1, 2, 3}
Completed == 0
Invalid == 3

\* the item types a reading has touched when it ends
Touched(outcome) ==
    IF outcome = Completed THEN ItemIds
    ELSE IF outcome = Invalid THEN {}
    ELSE {id \in ItemIds : id <= outcome}

\* ThingTypeManager::loadDat: m_datLoaded is cleared first and set when the
\* whole file was read; the item types of the OTB file are not touched
loadDat(M, outcome) == [M EXCEPT !.m_datLoaded = (outcome = Completed)]

\* ThingTypeManager::loadOtb: every node read becomes a new item type; the
\* exception of a bad file is caught and m_otbLoaded is left as it is
loadOtb(M, outcome) ==
    LET M1 == [M EXCEPT !.m_itemTypes =
                  [id \in ItemIds |-> IF id \in Touched(outcome) THEN "otb" ELSE @[id]]]
    IN  IF outcome = Completed
        THEN [M1 EXCEPT !.m_otbLoaded = TRUE, !.otbDone = TRUE]
        ELSE M1

\* a loadXml that reads the file whether an OTB file is loaded or not
loadXmlWithoutOtb(M, outcome) ==
    LET M1 == [M EXCEPT !.m_itemTypes =
                  [id \in ItemIds |-> IF id \in Touched(outcome) THEN "xml" ELSE @[id]]]
    IN  IF outcome = Completed
        THEN [M1 EXCEPT !.m_xmlLoaded = TRUE, !.xmlDone = M.otbDone]
        ELSE M1

\* ThingTypeManager::loadXml: throws at once while no OTB file is loaded; else
\* parseItemType names the item types; every exception is caught
loadXml(M, outcome) ==
    IF ~M.m_otbLoaded THEN M
    ELSE LET M1 == [M EXCEPT !.m_itemTypes =
                       [id \in ItemIds |-> IF id \in Touched(outcome) THEN "xml" ELSE @[id]]]
         IN  IF outcome = Completed
             THEN [M1 EXCEPT !.m_xmlLoaded = TRUE, !.xmlDone = M.otbDone]
             ELSE M1

\* the operation executed last on g_things: how the reading ended and whether
\* an exception left the function
ManagerOp(name, outcome) ==
    [op |-> name, buf |-> NoBuffer, ret |-> FALSE, noop |-> FALSE, opened |-> FALSE,
     outcome |-> outcome, escaped |-> FALSE]

\* one operation of g_things
ManagerStep(op, M) ==
    /\ ~ub
    /\ manager' = M
    /\ last' = op
    /\ UNCHANGED <<poolVars, m_refreshTimer, buffers, ub, log, frames, requested,
                   m_currentPool, m_pools, drawn, lifecycle, uiVars, events, tile>>

\* ThingTypeManager::init
ManagerInit == ManagerStep(ManagerOp("init", Completed), NewManager)

\* ThingTypeManager::loadDat
LoadDat ==
    \E outcome \in {Completed, Invalid} :
        ManagerStep(ManagerOp("loadDat", outcome), loadDat(manager, outcome))

\* ThingTypeManager::loadOtb
LoadOtb ==
    \E outcome \in Outcomes :
        ManagerStep(ManagerOp("loadOtb", outcome), loadOtb(manager, outcome))

\* ThingTypeManager::loadXml; without an OTB file it ends before the file is read
LoadXml ==
    \E outcome \in Outcomes :
        ManagerStep(ManagerOp("loadXml", IF manager.m_otbLoaded THEN outcome ELSE Invalid),
                    loadXml(manager, outcome))

NextManager ==
    \/ ManagerInit
    \/ LoadDat
    \/ LoadOtb
    \/ LoadXml

SpecManager == Init /\ [][NextManager]_vars

\* ------------------------------------------------------------- C31
\* C31: after any sequence of addChild, insertChild, removeChild, lowerChild,
\* raiseChild and moveChildToIndex, the child at the 0-based position i of
\* m_children has m_childIndex i + 1, so that isFirstChild and isLastChild answer
\* by the real position, and a widget without parent has m_childIndex -1.
C31_ChildIndexCache ==
    /\ \A p \in WidgetIds : \A i \in DOMAIN widgets[p].m_children :
        LET c == widgets[p].m_children[i] IN
        /\ widgets[c].m_childIndex = i
        /\ isFirstChild(widgets, c) <=> i = 1
        /\ isLastChild(widgets, c) <=> i = Len(widgets[p].m_children)
    /\ \A w \in WidgetIds : widgets[w].m_parent = Null => widgets[w].m_childIndex = -1

\* removeChild took the first child away and the child behind it, now the first,
\* still has the m_childIndex of its old position
C31_Witness ==
    /\ last.op = "removeChild"
    /\ widgets[last.c].m_parent = Null
    /\ widgets[last.c].m_childIndex = -1
    /\ widgets[last.p].m_children # <<>>
    /\ widgets[widgets[last.p].m_children[1]].m_childIndex = 2
    /\ ~isFirstChild(widgets, widgets[last.p].m_children[1])

\* ------------------------------------------------------------- C32
\* the number of times c occurs in the list
Occurrences(list, c) == Cardinality({i \in DOMAIN list : list[i] = c})

\* C32: after addChild(c) or insertChild(i, c) on a widget p that is not
\* destroyed, with c not destroyed and not yet a child of p, c occurs exactly once
\* in p.m_children, c.m_parent is p and no other widget lists c; and in every
\* state c is in p.m_children exactly when c.m_parent is p.
C32_ParentOfChild ==
    \A p \in WidgetIds, c \in WidgetIds : hasChild(widgets, p, c) <=> widgets[c].m_parent = p

C32_Step ==
    (/\ last'.op \in {"addChild", "insertChild"}
     /\ ~widgets[last'.p].m_destroyed
     /\ ~widgets[last'.c].m_destroyed
     /\ ~hasChild(widgets, last'.p, last'.c)) =>
        /\ Occurrences(widgets'[last'.p].m_children, last'.c) = 1
        /\ widgets'[last'.c].m_parent = last'.p
        /\ \A q \in WidgetIds \ {last'.p} : ~hasChild(widgets', q, last'.c)

C32_Membership == []C32_ParentOfChild /\ [][C32_Step]_vars

\* insertChild was called for a child of another widget and left it there
C32_Witness ==
    /\ last.op = "insertChild"
    /\ ~hasChild(widgets, last.p, last.c)
    /\ widgets[last.c].m_parent \notin {Null, last.p}
    /\ hasChild(widgets, widgets[last.c].m_parent, last.c)
    /\ ~widgets[last.c].m_destroyed
    /\ ~widgets[last.p].m_destroyed

\* ------------------------------------------------------------- C33
\* C33: m_focusedChild of a widget is null or one of its m_children: focusChild
\* refuses a widget that is no child, and removeChild, destroyChildren and destroy
\* take the focus off a child, or move it on, before the child leaves the list.
C33_FocusedIsChild ==
    \A p \in WidgetIds :
        widgets[p].m_focusedChild # Null => hasChild(widgets, p, widgets[p].m_focusedChild)

C33_Step ==
    /\ (last'.op = "focusChild" /\ last'.c # Null /\ ~hasChild(widgets, last'.p, last'.c))
           => widgets' = widgets
    /\ last'.op = "destroyChildren" => widgets'[last'.p].m_focusedChild = Null
    /\ last'.op = "removeChild" => widgets'[last'.p].m_focusedChild # last'.c
    /\ last'.op = "destroy" =>
           \A p \in WidgetIds : widgets'[p].m_focusedChild # last'.c

C33_Focus == []C33_FocusedIsChild /\ [][C33_Step]_vars

\* the focused child was removed and the focus went to the child before it
C33_Witness ==
    /\ last.op = "removeChild"
    /\ last.focused = last.c
    /\ ~hasChild(widgets, last.p, last.c)
    /\ widgets[last.p].m_focusedChild # Null
    /\ hasChild(widgets, last.p, widgets[last.p].m_focusedChild)

\* ------------------------------------------------------------- C34
\* the first locked child of p is enabled and every other child is disabled
C34_FrontOnly(W, p) ==
    \A i \in DOMAIN W[p].m_children :
        LET w == W[p].m_children[i]
        IN  W[w].m_enabled <=> w = Head(W[p].m_lockedChildren)

\* every child of p is enabled
C34_AllEnabled(W, p) ==
    \A i \in DOMAIN W[p].m_children : W[W[p].m_children[i]].m_enabled

\* m_lockedChildren holds no widget twice and only children
C34_Locked ==
    \A p \in WidgetIds : \A i \in DOMAIN widgets[p].m_lockedChildren :
        /\ Occurrences(widgets[p].m_lockedChildren, widgets[p].m_lockedChildren[i]) = 1
        /\ hasChild(widgets, p, widgets[p].m_lockedChildren[i])

\* lockChild of a child puts it in front, enabled, with every other child disabled
C34_LockStep ==
    (last'.op = "lockChild" /\ hasChild(widgets, last'.p, last'.c)) =>
        /\ Head(widgets'[last'.p].m_lockedChildren) = last'.c
        /\ C34_FrontOnly(widgets', last'.p)

\* unlockChild of a locked child
C34_UnlockStep ==
    (last'.op = "unlockChild" /\ isChildLocked(widgets, last'.p, last'.c)) =>
        IF widgets'[last'.p].m_lockedChildren # <<>>
        THEN C34_FrontOnly(widgets', last'.p)
        ELSE C34_AllEnabled(widgets', last'.p)

\* any unlockChild call
C34_AnyUnlockStep ==
    last'.op = "unlockChild" =>
        /\ widgets'[last'.p].m_lockedChildren # <<>> => C34_FrontOnly(widgets', last'.p)
        /\ (widgets[last'.p].m_lockedChildren # <<>>
                /\ widgets'[last'.p].m_lockedChildren = <<>>)
               => C34_AllEnabled(widgets', last'.p)

C35_Pending(w) == {i \in DOMAIN events : events[i].w = w}

\* at most one event is pending for a widget, and exactly when it is scheduled
C35_OnePending ==
    \A w \in WidgetIds :
        /\ Cardinality(C35_Pending(w)) <= 1
        /\ widgets[w].m_updateEventScheduled <=> C35_Pending(w) # {}

C35_SetRectStep ==
    last'.op = "setRect" =>
        IF last'.newRect = widgets[last'.w].m_rect
        THEN ~last'.ret /\ widgets' = widgets /\ events' = events
        ELSE last'.ret /\ widgets'[last'.w].m_rect = last'.newRect

C35_DispatchStep ==
    last'.op = "dispatch" =>
        /\ last'.w = Head(events).w
        /\ ~widgets'[last'.w].m_updateEventScheduled
        /\ last'.oldRect = widgets[last'.w].rectAtDispatch
        /\ last'.newRect = widgets[last'.w].m_rect
        /\ last'.ret <=> last'.oldRect # last'.newRect

\* C35: setRect with the current rect returns false and changes nothing;
\* otherwise it returns true and at most one geometry event is pending for a
\* widget; its dispatch clears the scheduled flag and calls onGeometryChange(old,
\* current) once, old being the rect before the first setRect since the dispatch
\* before, and only when old differs from the current rect.
C35_Coalescing == []C35_OnePending /\ [][C35_SetRectStep /\ C35_DispatchStep]_vars

\* an event was dispatched after the rect went from 0 over another rect to 3:
\* onGeometryChange was called with the first rect and the last one
C35_Witness ==
    /\ last.op = "dispatch"
    /\ last.ret
    /\ last.oldRect = 0
    /\ last.newRect = 3
    /\ widgets[last.w].m_rect = 3
    /\ widgets[last.w].m_children # <<>>
    /\ \E c \in WidgetIds : hasChild(widgets, last.w, c) /\ C35_Pending(c) # {}

\* ------------------------------------------------------------- C36
\* C36: after any addThing of things that are no effects, with the position left
\* to addThing (stackPos -1, 255 or -2), and any removeThing, m_things is in the
\* order of the stack priorities and holds at most MAX_THINGS + 1 entries.
C36_Ordered ==
    \A i, j \in DOMAIN tile.m_things :
        i < j => Things[tile.m_things[i]].priority <= Things[tile.m_things[j]].priority

C36_Capped == Len(tile.m_things) <= MAX_THINGS + 1

C36_StackOrder == [](C36_Ordered /\ C36_Capped)

\* the tile was full when a ground was added: the ground went to the front and
\* the thing that came to lie behind the last kept position was taken off
C36_Witness ==
    /\ last.op = "addThing"
    /\ last.t = 1
    /\ Len(tile.m_things) = MAX_THINGS + 1
    /\ tile.m_things[1] = 1
    /\ Things[tile.m_things[MAX_THINGS + 1]].priority = 5
    /\ tile.m_countFlag.hasCommonItem = 1
    /\ tile.m_countFlag.hasCreature = 1

\* ------------------------------------------------------------- C37
\* the entries of the list that analyzeThing counts for the counter
C37_CountOf(counter, list) == Cardinality({i \in DOMAIN list : counter \in Counted(list[i])})

\* the counters that are compared with the contents
C37_Counters == CountFlags \ {"opaque"}

C37_NotNegative == \A c \in CountFlags : tile.m_countFlag[c] >= 0

C37_Creatures ==
    tile.m_countFlag.hasCreature =
        Cardinality({i \in DOMAIN tile.m_things : tile.m_things[i] \in Creatures})
            + Len(tile.m_walkingCreatures)

\* every counter is the number of things, walking creatures and effects held
\* that analyzeThing counts for it
C37_CountsContents ==
    \A c \in C37_Counters :
        tile.m_countFlag[c] = C37_CountOf(c, tile.m_things)
                                  + C37_CountOf(c, tile.m_walkingCreatures)
                                  + C37_CountOf(c, tile.m_effects)

\* every counter is the number of things and walking creatures, effects left out
C37_CountsNonEffects ==
    \A c \in C37_Counters :
        tile.m_countFlag[c] = C37_CountOf(c, tile.m_things)
                                  + C37_CountOf(c, tile.m_walkingCreatures)

\* C37: after any addThing, removeThing, addWalkingCreature,
\* removeWalkingCreature and clean, hasCreature is the number of creatures in
\* m_things plus the entries of m_walkingCreatures and every other counter but
\* opaque is the number of held things with its attribute, where hasLight and
\* hasDisplacement count the held effects too; no counter is negative.
C37_Counters_Match == [](C37_NotNegative /\ C37_Creatures /\ C37_CountsContents)

\* C37 as stated: the counters count the held things that are no effects
C37_CountersOfNonEffects == [](C37_NotNegative /\ C37_Creatures /\ C37_CountsNonEffects)

\* a thing was taken off a tile that holds a lit item, a lit walking creature and
\* a lit effect: hasLight is three
C37_Witness ==
    /\ last.op = "removeThing"
    /\ Len(tile.m_effects) = 1
    /\ Len(tile.m_walkingCreatures) = 1
    /\ tile.m_things = <<6>>
    /\ tile.m_countFlag.hasLight = 3
    /\ tile.m_countFlag.hasCreature = 1

\* ------------------------------------------------------------- C38
\* C38: loadXml called while no OTB file has been loaded successfully changes no
\* item type, leaves the xml-loaded flag false and lets no exception out; the
\* xml-loaded flag is true only after a loadOtb that completed without error
\* followed by a loadXml that completed without error.
C38_XmlAfterOtb ==
    /\ manager.m_xmlLoaded => (manager.otbDone /\ manager.xmlDone)
    /\ manager.m_otbLoaded <=> manager.otbDone

C38_Step ==
    (last'.op = "loadXml" /\ ~manager.otbDone) =>
        /\ manager'.m_itemTypes = manager.m_itemTypes
        /\ ~manager'.m_xmlLoaded
        /\ ~last'.escaped
        /\ last'.outcome # Completed

C38_LoadingOrder == []C38_XmlAfterOtb /\ [][C38_Step]_vars

\* loadXml was refused before any OTB file was read: nothing is loaded and every
\* item type is the null item type
C38_Witness ==
    /\ last.op = "loadXml"
    /\ ~manager.otbDone
    /\ ~manager.m_otbLoaded
    /\ ~manager.m_xmlLoaded
    /\ \E id \in ItemIds : manager.m_itemTypes[id] = "otb"
    /\ \E id \in ItemIds : manager.m_itemTypes[id] = "null"

====
